---- MODULE Spec2Model ----
(***************************************************************************)
(* The merge operator of the evaluator (src/src/eval/merge.rs) together    *)
(* with the recursive-record value cache it drives.                         *)
(*                                                                          *)
(* Options (Rust Option<T>) are sequences of length at most one:            *)
(* None is << >> and Some(v) is << v >>.  Field names are strings;          *)
(* environments are functions from identifiers to cache indices; the cache  *)
(* is a sequence of entries and a cache index is a position in it.          *)
(***************************************************************************)
EXTENDS Integers, Sequences, FiniteSets, TLC

(***************************************************************************)
(* Bounds of the model.                                                     *)
(***************************************************************************)
\* number of further merges applied to the result of the first merge
MaxChain == 1
\* numeral priorities range over 0..MaxPrio
MaxPrio == 1
\* depth of the evaluator's call stack on entry to merge
MaxStack == 1

None == << >>

Some(v) == << v >>

\* Option::or that never takes the second option
OptOrFirst(a, b) == a

\* Option::or
OptOr(a, b) == IF a # None THEN a ELSE b

Keys == {"a", "b", "c"}

(***************************************************************************)
(* Numbers are f64.  The finite values of the model are integers; the two   *)
(* special classes are the infinities (n is the sign) and NaN.              *)
(***************************************************************************)
Fin(n) == [cls |-> "fin", n |-> n]

Inf(s) == [cls |-> "inf", n |-> s]

NaN == [cls |-> "nan", n |-> 0]

\* f64 subtraction
FSub(x, y) ==
  IF x.cls = "nan" \/ y.cls = "nan" THEN NaN
  ELSE IF x.cls = "inf" /\ y.cls = "inf"
       THEN IF x.n = y.n THEN NaN ELSE x
  ELSE IF x.cls = "inf" THEN x
  ELSE IF y.cls = "inf" THEN Inf(0 - y.n)
  ELSE Fin(x.n - y.n)

\* f64 addition
FAdd(x, y) ==
  IF x.cls = "nan" \/ y.cls = "nan" THEN NaN
  ELSE IF x.cls = "inf" /\ y.cls = "inf"
       THEN IF x.n = y.n THEN x ELSE NaN
  ELSE IF x.cls = "inf" THEN x
  ELSE IF y.cls = "inf" THEN y
  ELSE Fin(x.n + y.n)

\* f64::abs
FAbs(x) ==
  IF x.cls = "fin" THEN Fin(IF x.n < 0 THEN 0 - x.n ELSE x.n)
  ELSE IF x.cls = "inf" THEN Inf(1)
  ELSE NaN

\* a comparison that finds every difference below f64::EPSILON
FLtEpsilonAlways(x) == TRUE

\* x < f64::EPSILON: on the integer-valued finite numbers of the model the
\* only non-negative value below 2^-52 is 0; NaN compares false, +inf too.
FLtEpsilon(x) == x.cls = "fin" /\ x.n <= 0

(***************************************************************************)
(* Terms.                                                                   *)
(***************************************************************************)
Null == [tag |-> "Null"]

Bool(b) == [tag |-> "Bool", b |-> b]

Num(x) == [tag |-> "Num", x |-> x]

Str(s) == [tag |-> "Str", s |-> s]

Lbl(l) == [tag |-> "Lbl", l |-> l]

Enum(e) == [tag |-> "Enum", e |-> e]

Array(elems, attrs) == [tag |-> "Array", elems |-> elems, attrs |-> attrs]

Var(id) == [tag |-> "Var", id |-> id]

Fun(id, body) == [tag |-> "Fun", id |-> id, body |-> body]

App(f, arg) == [tag |-> "App", f |-> f, arg |-> arg]

Op1(op, arg) == [tag |-> "Op1", op |-> op, arg |-> arg]

Op2(op, l, r) == [tag |-> "Op2", op |-> op, l |-> l, r |-> r]

OpN(op, args) == [tag |-> "OpN", op |-> op, args |-> args]

Record(fields, attrs, sealed_tail) ==
  [tag |-> "Record", fields |-> fields, attrs |-> attrs, sealed_tail |-> sealed_tail]

RecRecord(fields, attrs, sealed_tail) ==
  [tag |-> "RecRecord", fields |-> fields, attrs |-> attrs, sealed_tail |-> sealed_tail]

\* ArrayAttrs::new() and ArrayAttrs::closurized()
ArrayAttrsNew == [closurized |-> FALSE]

ArrayAttrsClosurized(attrs) == [attrs EXCEPT !.closurized = TRUE]

(***************************************************************************)
(* Positions: TermPos::Original(span), TermPos::Inherited(span), None.      *)
(***************************************************************************)
PosOriginal(span) == [kind |-> "Original", span |-> span]

PosInherited(span) == [kind |-> "Inherited", span |-> span]

PosNone == [kind |-> "None", span |-> ""]

\* a position that stays as it is
IntoInheritedKept(pos) == pos

\* TermPos::into_inherited
IntoInherited(pos) ==
  IF pos.kind = "Original" THEN PosInherited(pos.span) ELSE pos

(***************************************************************************)
(* Merge priorities: Bottom < Neutral(x) < Top, Neutral(x) ordered by x.    *)
(***************************************************************************)
Bottom == [tag |-> "Bottom", n |-> 0]

Neutral(n) == [tag |-> "Neutral", n |-> n]

Top == [tag |-> "Top", n |-> 0]

PriorityDefault == Neutral(0)

PriorityRank(p) == IF p.tag = "Bottom" THEN 0 ELSE IF p.tag = "Neutral" THEN 1 ELSE 2

\* an order that compares no two numeral priorities
PriorityGtByRank(p, q) == PriorityRank(p) > PriorityRank(q)

\* p > q in the derived order of MergePriority
PriorityGt(p, q) ==
  \/ PriorityRank(p) > PriorityRank(q)
  \/ p.tag = "Neutral" /\ q.tag = "Neutral" /\ p.n > q.n

(***************************************************************************)
(* Fields and their metadata.                                               *)
(***************************************************************************)
TypeAnnotation(types, contracts) == [types |-> types, contracts |-> contracts]

FieldMetadata(doc, annotation, opt, not_exported, priority) ==
  [doc |-> doc, annotation |-> annotation, opt |-> opt,
   not_exported |-> not_exported, priority |-> priority]

Field(metadata, value, pending_contracts) ==
  [metadata |-> metadata, value |-> value, pending_contracts |-> pending_contracts]

PendingContract(contract, label) == [contract |-> contract, label |-> label]

\* attributes that are open only when both records are
RecordAttrsMergeBoth(attrs1, attrs2) == [open |-> attrs1.open /\ attrs2.open]

\* RecordAttrs::merge: logical OR of open
RecordAttrsMerge(attrs1, attrs2) == [open |-> attrs1.open \/ attrs2.open]

(***************************************************************************)
(* Environments.                                                            *)
(***************************************************************************)
EnvNew == << >>

EnvInsert(env, id, idx) ==
  [k \in (DOMAIN env) \cup {id} |-> IF k = id THEN idx ELSE env[k]]

\* Environment::get
EnvGet(env, id) == IF id \in DOMAIN env THEN Some(env[id]) ELSE None

\* env.extend(bindings restricted to ids): the later binding wins
EnvExtend(env, other, ids) ==
  [k \in (DOMAIN env) \cup ((DOMAIN other) \cap ids) |->
     IF k \in (DOMAIN other) \cap ids THEN other[k] ELSE env[k]]

Closure(body, env) == [body |-> body, env |-> env]

\* Closure::atomic_closure
AtomicClosure(body) == Closure(body, EnvNew)

(***************************************************************************)
(* Ident::fresh: identifiers "%0", "%1", ... from a monotonic counter.      *)
(***************************************************************************)
Digit(d) == <<"0", "1", "2", "3", "4", "5", "6", "7", "8", "9">>[d + 1]

RECURSIVE Decimal(_)
Decimal(n) == IF n < 10 THEN Digit(n) ELSE Decimal(n \div 10) \o Digit(n % 10)

IdentFresh(n) == "%" \o Decimal(n)

(***************************************************************************)
(* The recursive-value cache.                                               *)
(*   bt    : "Standard" or "Revertible"                                     *)
(*   deps  : the sibling fields a revertible entry depends on               *)
(*   body, env : the original closure                                       *)
(*   cenv  : the environment of the current closure (env patched with the   *)
(*           indices of the siblings of the enclosing record)               *)
(*   value : the evaluated form, once forced                                *)
(***************************************************************************)
Entry(bt, deps, body, env) ==
  [bt |-> bt, deps |-> deps, body |-> body, env |-> env, cenv |-> env, value |-> None]

\* Cache::add: a revertible binding with no dependencies is stored as a
\* standard entry.  The new index is Len(cache) + 1.
CacheAdd(cache, closure, bt, deps) ==
  Append(cache,
         IF bt = "Revertible" /\ deps # {}
         THEN Entry("Revertible", deps, closure.body, closure.env)
         ELSE Entry("Standard", {}, closure.body, closure.env))

\* Cache::revert: a fresh index holding the original closure of the source
\* entry, with the same binding type and dependencies and no current value.
CacheRevert(cache, idx) ==
  Append(cache, Entry(cache[idx].bt, cache[idx].deps, cache[idx].body, cache[idx].env))

\* Cache::deps: Some(deps) for a revertible entry, None for a standard one
CacheDeps(cache, idx) ==
  IF cache[idx].bt = "Revertible" THEN Some(cache[idx].deps) ELSE None

\* Cache::build_cached: point the entry's sibling references at rec_env
CacheBuildCached(cache, idx, rec_env) ==
  IF cache[idx].bt = "Revertible"
  THEN [cache EXCEPT ![idx].cenv = EnvExtend(cache[idx].env, rec_env, cache[idx].deps),
                     ![idx].value = None]
  ELSE cache

\* the sub-sequence of fields that are in deps, order kept
RECURSIVE FilterDeps(_, _)
FilterDeps(fields, deps) ==
  IF fields = << >> THEN << >>
  ELSE IF Head(fields) \in deps
       THEN <<Head(fields)>> \o FilterDeps(Tail(fields), deps)
       ELSE FilterDeps(Tail(fields), deps)

\* fun x1 => ... fun xk => body
RECURSIVE AsFunction(_, _)
AsFunction(params, body) ==
  IF params = << >> THEN body
  ELSE Fun(Head(params), AsFunction(Tail(params), body))

\* (...((head x1) x2) ... xk)
RECURSIVE ApplyTo(_, _)
ApplyTo(head, args) ==
  IF args = << >> THEN head
  ELSE ApplyTo(App(head, Var(Head(args))), Tail(args))

\* Cache::saturate: a standard entry is returned as it is; a revertible one
\* becomes an explicit function of the siblings it depends on, applied to the
\* like-named variables, which are resolved in the merged record later on.
\* The fresh variable that names the entry is bound in env.
CacheSaturate(cache, nfresh, idx, env, fields) ==
  LET fresh == IdentFresh(nfresh)
      params == FilterDeps(fields, cache[idx].deps)
  IN IF cache[idx].bt = "Standard"
     THEN [cache |-> cache, nfresh |-> nfresh + 1,
           env |-> EnvInsert(env, fresh, idx), out |-> Var(fresh)]
     ELSE [cache |-> Append(cache, Entry("Standard", {},
                                          AsFunction(params, cache[idx].body),
                                          cache[idx].env)),
           nfresh |-> nfresh + 1,
           env |-> EnvInsert(env, fresh, Len(cache) + 1),
           out |-> ApplyTo(Var(fresh), params)]

(***************************************************************************)
(* Strings that are formatted by the merge: a text is a sequence of pieces, *)
(* each a run of ordinary characters or the back-quote character.  No two   *)
(* runs are adjacent and no run is empty, so equal texts are equal values.  *)
(***************************************************************************)
BackQuote == "<backquote>"

Text(s) == IF s = "" THEN << >> ELSE <<s>>

\* string concatenation
Cat(a, b) ==
  IF a = << >> THEN b
  ELSE IF b = << >> THEN a
  ELSE IF a[Len(a)] # BackQuote /\ b[1] # BackQuote
       THEN SubSeq(a, 1, Len(a) - 1) \o <<a[Len(a)] \o b[1]>> \o Tail(b)
       ELSE a \o b

\* format!("`{field}`")
QuoteField(field) == Cat(Cat(<<BackQuote>>, Text(field)), <<BackQuote>>)

\* [String]::join(sep)
RECURSIVE Join(_, _)
Join(strs, sep) ==
  IF strs = << >> THEN << >>
  ELSE IF Len(strs) = 1 THEN strs[1]
  ELSE Cat(Cat(strs[1], sep), Join(Tail(strs), sep))

NoteMisspelled == Text("Have you misspelled a field?")

NoteTooStrict ==
  Cat(Text("The record contract might also be too strict. By default, record contracts exclude any field which is not listed.\nAppend "),
  Cat(<<BackQuote>>, Cat(Text(", .."), Cat(<<BackQuote>>,
  Cat(Text(" at the end of the record contract, as in "),
  Cat(<<BackQuote>>, Cat(Text("{some_field | SomeContract, ..}"), Cat(<<BackQuote>>,
  Text(", to make it accept extra fields.")))))))))

(***************************************************************************)
(* Labels.                                                                  *)
(***************************************************************************)
Label(id) == [id |-> id, message |-> None, notes |-> << >>]

\* Label::with_diagnostic_message
WithDiagnosticMessage(label, message) == [label EXCEPT !.message = Some(message)]

\* Label::with_diagnostic_notes
WithDiagnosticNotes(label, notes) == [label EXCEPT !.notes = notes]

\* Label::get_evaluated_arg: the labels of the model track no argument
GetEvaluatedArg(label, cache) == None

(***************************************************************************)
(* Merge modes, rich terms, errors.                                         *)
(***************************************************************************)
Standard == [kind |-> "Standard"]

Contract(label) == [kind |-> "Contract", label |-> label]

RichTerm(term, pos) == [term |-> term, pos |-> pos]

MergeIncompatibleArgs(rt1, rt2, pos_op) ==
  [kind |-> "MergeIncompatibleArgs", t1 |-> rt1, t2 |-> rt2, pos_op |-> pos_op]

BlameError(evaluated_arg, label, call_stack) ==
  [kind |-> "BlameError", evaluated_arg |-> evaluated_arg, label |-> label,
   call_stack |-> call_stack]

\* the error of a sealed tail made without the call stack
IllegalPolymorphicTailAccessNoStack(action, evaluated_arg, label, call_stack) ==
  [kind |-> "IllegalPolymorphicTailAccess", action |-> action,
   evaluated_arg |-> evaluated_arg, label |-> label, call_stack |-> << >>]

IllegalPolymorphicTailAccess(action, evaluated_arg, label, call_stack) ==
  [kind |-> "IllegalPolymorphicTailAccess", action |-> action,
   evaluated_arg |-> evaluated_arg, label |-> label, call_stack |-> call_stack]

UnboundIdentifier(id) == [kind |-> "UnboundIdentifier", id |-> id]

\* a panic of the Rust code (unwrap on None or Err, unreachable!)
Panic(what) == [kind |-> "Panic", what |-> what]

Ok(closure) == [tag |-> "Ok", closure |-> closure]

Err(error) == [tag |-> "Err", error |-> error]

(***************************************************************************)
(* The state threaded through one call of merge: the cache, the counter of  *)
(* Ident::fresh, the environment of the result, and the error or panic that *)
(* stopped the call, if any (nothing is done once it is set).               *)
(***************************************************************************)
MergeState(cache, nfresh, env) ==
  [cache |-> cache, nfresh |-> nfresh, env |-> env, err |-> None]

Step(st, out) == [st |-> st, out |-> out]

Fail(st, error) == [st EXCEPT !.err = Some(error)]

\* RevertClosurize for RichTerm binding the fresh variable to the original
\* element instead of a reverted copy
RevertClosurizeRichTermShared(st, t, with_env) ==
  IF st.err # None THEN Step(st, t)
  ELSE IF t.tag = "Var"
  THEN IF EnvGet(with_env, t.id) = None
       THEN Step(Fail(st, Panic("unwrap")), t)
       ELSE Step([st EXCEPT !.nfresh = st.nfresh + 1,
                            !.env = EnvInsert(st.env, IdentFresh(st.nfresh), with_env[t.id])],
                 Var(IdentFresh(st.nfresh)))
  ELSE Step(st, t)

\* RevertClosurize for RichTerm that also clears the value of the original
\* element
RevertClosurizeRichTermCleared(st, t, with_env) ==
  IF st.err # None THEN Step(st, t)
  ELSE IF t.tag = "Var"
  THEN IF EnvGet(with_env, t.id) = None
       THEN Step(Fail(st, Panic("unwrap")), t)
       ELSE Step([st EXCEPT
                    !.cache = CacheRevert([st.cache EXCEPT ![with_env[t.id]].value = None],
                                          with_env[t.id]),
                    !.nfresh = st.nfresh + 1,
                    !.env = EnvInsert(st.env, IdentFresh(st.nfresh), Len(st.cache) + 1)],
                 Var(IdentFresh(st.nfresh)))
  ELSE Step(st, t)

\* RevertClosurize for RichTerm
RevertClosurizeRichTerm(st, t, with_env) ==
  IF st.err # None THEN Step(st, t)
  ELSE IF t.tag = "Var"
  THEN IF EnvGet(with_env, t.id) = None
       THEN Step(Fail(st, Panic("unwrap")), t)
       ELSE LET fresh_id == IdentFresh(st.nfresh)
            IN Step([st EXCEPT !.cache = CacheRevert(st.cache, with_env[t.id]),
                               !.nfresh = st.nfresh + 1,
                               !.env = EnvInsert(st.env, fresh_id, Len(st.cache) + 1)],
                    Var(fresh_id))
  ELSE Step(st, t)

\* RevertClosurize for PendingContract: map_contract
RevertClosurizePendingContract(st, pending_contract, with_env) ==
  LET map_contract(r) == Step(r.st, PendingContract(r.out, pending_contract.label))
  IN map_contract(RevertClosurizeRichTerm(st, pending_contract.contract, with_env))

\* RevertClosurize for Vec<PendingContract>
RECURSIVE RevertClosurizePendingContracts(_, _, _)
RevertClosurizePendingContracts(st, pending_contracts, with_env) ==
  IF pending_contracts = << >> THEN Step(st, << >>)
  ELSE LET collect(r, rest) == Step(rest.st, <<r.out>> \o rest.out)
           next(r) ==
             collect(r, RevertClosurizePendingContracts(r.st, Tail(pending_contracts), with_env))
       IN next(RevertClosurizePendingContract(st, Head(pending_contracts), with_env))

\* RevertClosurize for Field
RevertClosurizeField(st, field, with_env) ==
  LET map_value(r) == Step(r.st, Some(r.out))
      rebuild(v, pc) == Step(pc.st, Field(field.metadata, v.out, pc.out))
      contracts(v) ==
        rebuild(v, RevertClosurizePendingContracts(v.st, field.pending_contracts, with_env))
  IN contracts(IF field.value = None THEN Step(st, None)
               ELSE map_value(RevertClosurizeRichTerm(st, field.value[1], with_env)))

\* field_deps
FieldDeps(cache, rt, local_env) ==
  IF rt.tag = "Var"
  THEN IF EnvGet(local_env, rt.id) = None
       THEN Err(UnboundIdentifier(rt.id))
       ELSE LET unwrap_or_default(deps) == Ok(IF deps = None THEN {} ELSE deps[1])
            IN unwrap_or_default(CacheDeps(cache, local_env[rt.id]))
  ELSE Ok({})

\* Saturate for RichTerm; lo is the local environment being filled
Saturate(st, lo, t, local_env, fields) ==
  IF st.err # None THEN [st |-> st, lo |-> lo, out |-> t]
  ELSE IF t.tag = "Var"
  THEN IF EnvGet(local_env, t.id) = None
       THEN [st |-> Fail(st, UnboundIdentifier(t.id)), lo |-> lo, out |-> t]
       ELSE LET saturated(r) == [st |-> [st EXCEPT !.cache = r.cache, !.nfresh = r.nfresh],
                                     lo |-> r.env, out |-> r.out]
            IN saturated(CacheSaturate(st.cache, st.nfresh, local_env[t.id], lo, fields))
  ELSE [st |-> st, lo |-> lo, out |-> t]

\* fields_merge_closurize keeping the dependencies of the left value only
fields_merge_closurizeLeftDeps(st, t1, env1, t2, env2, fields) ==
  LET add(combined_deps, s1, s2, fresh_var) ==
        IF s2.st.err # None THEN Step(s2.st, t1)
        ELSE Step([s2.st EXCEPT
                     !.cache = CacheAdd(s2.st.cache,
                                        Closure(Op2("Merge", s1.out, s2.out), s2.lo),
                                        "Revertible", combined_deps),
                     !.nfresh = s2.st.nfresh + 1,
                     !.env = EnvInsert(s2.st.env, fresh_var, Len(s2.st.cache) + 1)],
                  Var(fresh_var))
      second(combined_deps, s1, s2) == add(combined_deps, s1, s2, IdentFresh(s2.st.nfresh))
      first(combined_deps, s1) ==
        second(combined_deps, s1, Saturate(s1.st, s1.lo, t2, env2, fields))
      deps(d1, d2) ==
        IF d1.tag = "Err" THEN Step(Fail(st, d1.error), t1)
        ELSE IF d2.tag = "Err" THEN Step(Fail(st, d2.error), t1)
        ELSE first(d1.closure, Saturate(st, EnvNew, t1, env1, fields))
  IN deps(FieldDeps(st.cache, t1, env1), FieldDeps(st.cache, t2, env2))

\* fields_merge_closurize
fields_merge_closurize(st, t1, env1, t2, env2, fields) ==
  LET add(combined_deps, s1, s2, fresh_var) ==
        IF s2.st.err # None THEN Step(s2.st, t1)
        ELSE Step([s2.st EXCEPT
                     !.cache = CacheAdd(s2.st.cache,
                                        Closure(Op2("Merge", s1.out, s2.out), s2.lo),
                                        "Revertible", combined_deps),
                     !.nfresh = s2.st.nfresh + 1,
                     !.env = EnvInsert(s2.st.env, fresh_var, Len(s2.st.cache) + 1)],
                  Var(fresh_var))
      second(combined_deps, s1, s2) == add(combined_deps, s1, s2, IdentFresh(s2.st.nfresh))
      first(combined_deps, s1) ==
        second(combined_deps, s1, Saturate(s1.st, s1.lo, t2, env2, fields))
      deps(d1, d2) ==
        IF d1.tag = "Err" THEN Step(Fail(st, d1.error), t1)
        ELSE IF d2.tag = "Err" THEN Step(Fail(st, d2.error), t1)
        ELSE first(d1.closure \cup d2.closure, Saturate(st, EnvNew, t1, env1, fields))
  IN deps(FieldDeps(st.cache, t1, env1), FieldDeps(st.cache, t2, env2))

\* merge_doc letting the second documentation win
merge_docSecond(doc1, doc2) == OptOr(doc2, doc1)

\* merge_doc
merge_doc(doc1, doc2) == OptOr(doc1, doc2)

\* Result::unwrap: an error becomes a panic
Unwrap(st) == IF st.err # None THEN [st EXCEPT !.err = Some(Panic("unwrap"))] ELSE st

\* the value and the priority a field of the result takes from one closurization
Selected(r, priority) == [st |-> r.st, value |-> Some(r.out), priority |-> priority]

\* fields_merge_closurize(..).unwrap()
Unwrapped(r) == Step(Unwrap(r.st), r.out)

\* SelectValue with the two priority comparisons the wrong way round
SelectValueLowerWins(st, value1, priority1, env1, value2, priority2, env2, fields) ==
  IF value1 # None /\ value2 # None /\ priority1 = priority2
  THEN Selected(Unwrapped(fields_merge_closurize(st, value1[1], env1, value2[1], env2, fields)),
                priority1)
  ELSE IF value1 # None /\ PriorityGt(priority2, priority1)
  THEN Selected(RevertClosurizeRichTerm(st, value1[1], env1), priority1)
  ELSE IF value1 # None /\ value2 = None
  THEN Selected(RevertClosurizeRichTerm(st, value1[1], env1), priority1)
  ELSE IF value2 # None /\ PriorityGt(priority1, priority2)
  THEN Selected(RevertClosurizeRichTerm(st, value2[1], env2), priority2)
  ELSE IF value1 = None /\ value2 # None
  THEN Selected(RevertClosurizeRichTerm(st, value2[1], env2), priority2)
  ELSE IF value1 = None /\ value2 = None
  THEN [st |-> st, value |-> None, priority |-> PriorityDefault]
  ELSE [st |-> Fail(st, Panic("unreachable")), value |-> None, priority |-> PriorityDefault]

\* the (value, priority) selection of merge_fields
SelectValue(st, value1, priority1, env1, value2, priority2, env2, fields) ==
  IF value1 # None /\ value2 # None /\ priority1 = priority2
  THEN Selected(Unwrapped(fields_merge_closurize(st, value1[1], env1, value2[1], env2, fields)),
                priority1)
  ELSE IF value1 # None /\ PriorityGt(priority1, priority2)
  THEN Selected(RevertClosurizeRichTerm(st, value1[1], env1), priority1)
  ELSE IF value1 # None /\ value2 = None
  THEN Selected(RevertClosurizeRichTerm(st, value1[1], env1), priority1)
  ELSE IF value2 # None /\ PriorityGt(priority2, priority1)
  THEN Selected(RevertClosurizeRichTerm(st, value2[1], env2), priority2)
  ELSE IF value1 = None /\ value2 # None
  THEN Selected(RevertClosurizeRichTerm(st, value2[1], env2), priority2)
  ELSE IF value1 = None /\ value2 = None
  THEN [st |-> st, value |-> None, priority |-> PriorityDefault]
  ELSE [st |-> Fail(st, Panic("unreachable")), value |-> None, priority |-> PriorityDefault]

\* the annotation part of merge_fields that loses the second declared type
MergeAnnotationsDropped(annot1, annot2) ==
  TypeAnnotation(OptOr(annot1.types, annot2.types), annot1.contracts \o annot2.contracts)

\* the annotation part of merge_fields that puts the second declared type
\* after the contracts of the second annotation
MergeAnnotationsLast(annot1, annot2) ==
  LET both == annot1.types # None /\ annot2.types # None
      types == IF both THEN annot1.types ELSE OptOr(annot1.types, annot2.types)
      contracts2 == IF both THEN Append(annot2.contracts, annot2.types[1])
                    ELSE annot2.contracts
  IN TypeAnnotation(types, annot1.contracts \o contracts2)

\* the annotation part of merge_fields
MergeAnnotations(annot1, annot2) ==
  LET both == annot1.types # None /\ annot2.types # None
      types == IF both THEN annot1.types ELSE OptOr(annot1.types, annot2.types)
      contracts1 == IF both THEN Append(annot1.contracts, annot2.types[1])
                    ELSE annot1.contracts
  IN TypeAnnotation(types, contracts1 \o annot2.contracts)

\* merge_fields putting the pending contracts of the second field first
merge_fieldsRightFirst(st, field1, env1, field2, env2, fields) ==
  IF st.err # None THEN Step(st, field1)
  ELSE
  LET metadata1 == field1.metadata
      metadata2 == field2.metadata
      metadata(priority) ==
        FieldMetadata(merge_doc(metadata1.doc, metadata2.doc),
                      MergeAnnotations(metadata1.annotation, metadata2.annotation),
                      metadata1.opt /\ metadata2.opt,
                      metadata1.not_exported \/ metadata2.not_exported,
                      priority)
      build(sel, pc1, pc2) ==
        Step(pc2.st, Field(metadata(sel.priority), sel.value, pc2.out \o pc1.out))
      pending_contracts2(sel, pc1) ==
        build(sel, pc1, RevertClosurizePendingContracts(pc1.st, field2.pending_contracts, env2))
      pending_contracts1(sel) ==
        pending_contracts2(sel,
          RevertClosurizePendingContracts(sel.st, field1.pending_contracts, env1))
  IN pending_contracts1(SelectValue(st, field1.value, metadata1.priority, env1,
                                    field2.value, metadata2.priority, env2, fields))

\* merge_fields
merge_fields(st, field1, env1, field2, env2, fields) ==
  IF st.err # None THEN Step(st, field1)
  ELSE
  LET metadata1 == field1.metadata
      metadata2 == field2.metadata
      metadata(priority) ==
        FieldMetadata(merge_doc(metadata1.doc, metadata2.doc),
                      MergeAnnotations(metadata1.annotation, metadata2.annotation),
                      metadata1.opt /\ metadata2.opt,
                      metadata1.not_exported \/ metadata2.not_exported,
                      priority)
      build(sel, pc1, pc2) ==
        Step(pc2.st, Field(metadata(sel.priority), sel.value, pc1.out \o pc2.out))
      pending_contracts2(sel, pc1) ==
        build(sel, pc1, RevertClosurizePendingContracts(pc1.st, field2.pending_contracts, env2))
      pending_contracts1(sel) ==
        pending_contracts2(sel,
          RevertClosurizePendingContracts(sel.st, field1.pending_contracts, env1))
  IN pending_contracts1(SelectValue(st, field1.value, metadata1.priority, env1,
                                    field2.value, metadata2.priority, env2, fields))

(***************************************************************************)
(* hashmap::split.  Maps are functions from keys to values.                 *)
(***************************************************************************)
MapEmpty == << >>

MapInsert(m, k, v) == [x \in (DOMAIN m) \cup {k} |-> IF x = k THEN v ELSE m[x]]

MapRemove(m, k) == [x \in (DOMAIN m) \ {k} |-> m[x]]

\* the sequences that enumerate the set S, each element once
Orders(S) ==
  {o \in [1..Cardinality(S) -> S] : \A i, j \in 1..Cardinality(S) : o[i] = o[j] => i = j}

SplitResult(left, center, right) == [left |-> left, center |-> center, right |-> right]

\* the loop of split pairing the values of a common key the wrong way round
RECURSIVE SplitLoopSwapped(_, _, _)
SplitLoopSwapped(keys, m1, acc) ==
  IF keys = << >> THEN acc
  ELSE LET key == Head(keys)
       IN SplitLoopSwapped(Tail(keys), m1,
            IF key \in DOMAIN acc.right
            THEN SplitResult(acc.left,
                             MapInsert(acc.center, key, <<acc.right[key], m1[key]>>),
                             MapRemove(acc.right, key))
            ELSE SplitResult(MapInsert(acc.left, key, m1[key]), acc.center, acc.right))

\* the loop of split over the bindings of m1, taken in the order `keys`
RECURSIVE SplitLoop(_, _, _)
SplitLoop(keys, m1, acc) ==
  IF keys = << >> THEN acc
  ELSE LET key == Head(keys)
       IN SplitLoop(Tail(keys), m1,
            IF key \in DOMAIN acc.right
            THEN SplitResult(acc.left,
                             MapInsert(acc.center, key, <<m1[key], acc.right[key]>>),
                             MapRemove(acc.right, key))
            ELSE SplitResult(MapInsert(acc.left, key, m1[key]), acc.center, acc.right))

\* split(m1, m2); the traversal order of m1 does not show in the result
split(m1, m2) ==
  SplitLoop(CHOOSE o \in Orders(DOMAIN m1) : TRUE, m1, SplitResult(MapEmpty, MapEmpty, m2))

(***************************************************************************)
(* merge.  The iteration orders of the three hash maps left, center and     *)
(* right are not determined by the program: ordL, ordC and ordR are the     *)
(* orders one run happens to see.  The outcome is the result, the cache,    *)
(* the fresh-identifier counter and the evaluator's call stack.             *)
(***************************************************************************)
Outcome(res, cache, nfresh, call_stack) ==
  [res |-> res, cache |-> cache, nfresh |-> nfresh, call_stack |-> call_stack]

\* m.extend(part.into_iter().map(|(id, field)| (id, field.revert_closurize(..))))
RECURSIVE ExtendReverted(_, _, _, _, _)
ExtendReverted(st, m, ord, part, with_env) ==
  IF ord = << >> THEN Step(st, m)
  ELSE LET extend(r) ==
             ExtendReverted(r.st, MapInsert(m, Head(ord), r.out), Tail(ord), part, with_env)
       IN extend(RevertClosurizeField(st, part[Head(ord)], with_env))

\* for (id, (field1, field2)) in center { m.insert(id, merge_fields(..)?) }
RECURSIVE InsertMerged(_, _, _, _, _, _, _)
InsertMerged(st, m, ord, center, env1, env2, field_names) ==
  IF ord = << >> \/ st.err # None THEN Step(st, m)
  ELSE LET insert(r) ==
             InsertMerged(r.st, MapInsert(m, Head(ord), r.out), Tail(ord),
                          center, env1, env2, field_names)
       IN insert(merge_fields(st, center[Head(ord)][1], env1,
                              center[Head(ord)][2], env2, field_names))

\* the extra-field diagnostic that says "fields" of a single field too
ExtraFieldsLabelPlural(label, ordL) ==
  LET fields == [i \in 1..Len(ordL) |-> QuoteField(ordL[i])]
      fields_list == Join(fields, Text(","))
  IN WithDiagnosticNotes(
       WithDiagnosticMessage(label,
         Cat(Text("extra field"), Cat(Text("s"), Cat(Text(" "), fields_list)))),
       <<NoteMisspelled, NoteTooStrict>>)

\* the extra-field diagnostic of a closed record contract
ExtraFieldsLabel(label, ordL) ==
  LET fields == [i \in 1..Len(ordL) |-> QuoteField(ordL[i])]
      plural == IF Len(fields) = 1 THEN "" ELSE "s"
      fields_list == Join(fields, Text(","))
  IN WithDiagnosticNotes(
       WithDiagnosticMessage(label,
         Cat(Text("extra field"), Cat(Text(plural), Cat(Text(" "), fields_list)))),
       <<NoteMisspelled, NoteTooStrict>>)

\* the test for extra fields that takes an open contract for a closed one
RejectsExtraFieldsOpen(mode, r2, parts) ==
  mode.kind = "Contract" /\ DOMAIN parts.left # {}

\* the test for extra fields that looks at the fields of the contract alone
RejectsExtraFieldsRight(mode, r2, parts) ==
  mode.kind = "Contract" /\ ~r2.attrs.open /\ DOMAIN parts.right # {}

\* if let MergeMode::Contract(..) = mode { if !r2.attrs.open && !left.is_empty()
RejectsExtraFields(mode, r2, parts) ==
  mode.kind = "Contract" /\ ~r2.attrs.open /\ DOMAIN parts.left # {}

\* the (Term::Record(r1), Term::Record(r2)) arm of merge
MergeRecords(cache, nfresh, r1, pos1, env1, r2, pos2, env2, pos_op, mode, call_stack, ordL, ordC, ordR) ==
  LET field_names == ordL \o ordC \o ordR
      final_pos == IF mode = Standard THEN IntoInherited(pos_op)
                   ELSE IntoInherited(pos1)
      sealed(tail) ==
        Outcome(Err(IllegalPolymorphicTailAccess("Merge",
                      GetEvaluatedArg(tail.label, cache), tail.label, call_stack)),
                cache, nfresh, << >>)
      extra(label) ==
        Outcome(Err(BlameError(GetEvaluatedArg(label, cache), label, << >>)),
                cache, nfresh, call_stack)
      built(c) ==
        IF c.st.err # None
        THEN Outcome(Err(c.st.err[1]), c.st.cache, c.st.nfresh, call_stack)
        ELSE Outcome(Ok(Closure(RichTerm(RecRecord(c.out,
                                   RecordAttrsMerge(r1.attrs, r2.attrs), None),
                                 final_pos),
                                c.st.env)),
                     c.st.cache, c.st.nfresh, call_stack)
      center(parts, r) ==
        built(InsertMerged(r.st, r.out, ordC, parts.center, env1, env2, field_names))
      right(parts, l) == center(parts, ExtendReverted(l.st, l.out, ordR, parts.right, env2))
      left(parts) ==
        right(parts, ExtendReverted(MergeState(cache, nfresh, EnvNew), MapEmpty, ordL,
                                    parts.left, env1))
      records(tail, parts) ==
        IF tail # None THEN sealed(tail[1])
        ELSE IF RejectsExtraFields(mode, r2, parts)
        THEN extra(ExtraFieldsLabel(mode.label, ordL))
        ELSE left(parts)
  IN records(OptOr(r1.sealed_tail, r2.sealed_tail), split(r1.fields, r2.fields))

\* the arms of merge on two terms of the same basic variant
MergeEqual(t1, pos1, t2, pos2, pos_op, equal) ==
  IF equal
  THEN Ok(AtomicClosure(RichTerm(t1, IntoInherited(pos_op))))
  ELSE Err(MergeIncompatibleArgs(RichTerm(t1, pos1), RichTerm(t2, pos2), pos_op))

\* the last arm of merge that blames in Standard mode too
MergeFallbackAnyMode(cache, t1, pos1, t2, pos2, pos_op, mode, call_stack) ==
  IF t2.tag = "Record"
  THEN Err(BlameError(None, Label("blame"), call_stack))
  ELSE Err(MergeIncompatibleArgs(RichTerm(t1, pos1), RichTerm(t2, pos2), pos_op))

\* the last arm of merge: (t1_, t2_) => match (mode, &t2_)
MergeFallback(cache, t1, pos1, t2, pos2, pos_op, mode, call_stack) ==
  IF mode.kind = "Contract" /\ t2.tag = "Record"
  THEN Err(BlameError(GetEvaluatedArg(mode.label, cache), mode.label, call_stack))
  ELSE Err(MergeIncompatibleArgs(RichTerm(t1, pos1), RichTerm(t2, pos2), pos_op))

\* merge
merge(cache, nfresh, rt1, env1, rt2, env2, pos_op, mode, call_stack, ordL, ordC, ordR) ==
  LET t1 == rt1.term
      pos1 == rt1.pos
      t2 == rt2.term
      pos2 == rt2.pos
      atom(res) == Outcome(res, cache, nfresh, call_stack)
  IN IF t1.tag = "Null" /\ t2.tag = "Null"
     THEN atom(Ok(AtomicClosure(RichTerm(Null, IntoInherited(pos_op)))))
     ELSE IF t1.tag = "Bool" /\ t2.tag = "Bool"
     THEN atom(MergeEqual(t1, pos1, t2, pos2, pos_op, t1.b = t2.b))
     ELSE IF t1.tag = "Num" /\ t2.tag = "Num"
     THEN atom(MergeEqual(t1, pos1, t2, pos2, pos_op, FLtEpsilon(FAbs(FSub(t1.x, t2.x)))))
     ELSE IF t1.tag = "Str" /\ t2.tag = "Str"
     THEN atom(MergeEqual(t1, pos1, t2, pos2, pos_op, t1.s = t2.s))
     ELSE IF t1.tag = "Lbl" /\ t2.tag = "Lbl"
     THEN atom(MergeEqual(t1, pos1, t2, pos2, pos_op, t1.l = t2.l))
     ELSE IF t1.tag = "Enum" /\ t2.tag = "Enum"
     THEN atom(MergeEqual(t1, pos1, t2, pos2, pos_op, t1.e = t2.e))
     ELSE IF t1.tag = "Array" /\ t2.tag = "Array" /\ t1.elems = << >> /\ t2.elems = << >>
     THEN atom(Ok(AtomicClosure(RichTerm(Array(t1.elems, ArrayAttrsClosurized(ArrayAttrsNew)),
                                         IntoInherited(pos_op)))))
     ELSE IF t1.tag = "Record" /\ t2.tag = "Record"
     THEN MergeRecords(cache, nfresh, t1, pos1, env1, t2, pos2, env2, pos_op, mode,
                       call_stack, ordL, ordC, ordR)
     ELSE atom(MergeFallback(cache, t1, pos1, t2, pos2, pos_op, mode, call_stack))

(***************************************************************************)
(* The evaluator around merge: forcing a term to a value, building the      *)
(* fields of a record literal, and the recursive-record fixpoint that       *)
(* points every revertible field at its current siblings.                   *)
(***************************************************************************)
EvalResult(cache, res) == [cache |-> cache, res |-> res]

MissingFieldDef(id) == [kind |-> "MissingFieldDef", id |-> id]

TypeError == [kind |-> "TypeError"]

RuntimeError(error) == [tag |-> "RuntimeError", error |-> error]

\* evaluation of a term in an environment, with update of the forced thunks
RECURSIVE Eval(_, _, _)
Eval(cache, t, env) ==
  LET update(idx, r) ==
        IF r.res.tag = "Ok"
        THEN EvalResult([r.cache EXCEPT ![idx].value = Some(r.res.closure)], r.res)
        ELSE r
      force(idx) ==
        IF cache[idx].value # None
        THEN EvalResult(cache, Ok(cache[idx].value[1]))
        ELSE update(idx, Eval(cache, cache[idx].body, cache[idx].cenv))
      merged(c, v1, v2, m) ==
        IF v1.tag = "Record" /\ v2.tag = "Record" THEN EvalResult(c, Err(TypeError))
        ELSE IF m.res.tag = "Ok"
        THEN EvalResult(c, Ok(AtomicClosure(m.res.closure.body.term)))
        ELSE EvalResult(c, m.res)
      op2(l, r) ==
        IF r.res.tag = "Err" THEN r
        ELSE IF t.op = "Plus"
        THEN IF l.res.closure.body.tag = "Num" /\ r.res.closure.body.tag = "Num"
             THEN EvalResult(r.cache, Ok(AtomicClosure(Num(FAdd(l.res.closure.body.x,
                                                                r.res.closure.body.x)))))
             ELSE EvalResult(r.cache, Err(TypeError))
        ELSE merged(r.cache, l.res.closure.body, r.res.closure.body,
                    merge(r.cache, 0, RichTerm(l.res.closure.body, PosNone), l.res.closure.env,
                          RichTerm(r.res.closure.body, PosNone), r.res.closure.env,
                          PosNone, Standard, << >>, << >>, << >>, << >>))
      snd(l) == IF l.res.tag = "Err" THEN l ELSE op2(l, Eval(l.cache, t.r, env))
      enter(f, c2, idx) ==
        Eval(c2, f.res.closure.body.body,
             EnvInsert(f.res.closure.env, f.res.closure.body.id, idx))
      app(f) ==
        IF f.res.tag = "Err" THEN f
        ELSE IF f.res.closure.body.tag # "Fun" THEN EvalResult(f.cache, Err(TypeError))
        ELSE IF t.arg.tag = "Var"
        THEN IF EnvGet(env, t.arg.id) = None
             THEN EvalResult(f.cache, Err(UnboundIdentifier(t.arg.id)))
             ELSE enter(f, f.cache, env[t.arg.id])
        ELSE enter(f, CacheAdd(f.cache, Closure(t.arg, env), "Standard", {}),
                   Len(f.cache) + 1)
  IN IF t.tag = "Var"
     THEN IF EnvGet(env, t.id) = None THEN EvalResult(cache, Err(UnboundIdentifier(t.id)))
          ELSE force(env[t.id])
     ELSE IF t.tag = "Op2" THEN snd(Eval(cache, t.l, env))
     ELSE IF t.tag = "App" THEN app(Eval(cache, t.f, env))
     ELSE IF t.tag = "RuntimeError" THEN EvalResult(cache, Err(t.error))
     ELSE EvalResult(cache, Ok(Closure(t, env)))

KeyOrder == <<"a", "b", "c", "x", "y", "z">>

\* the keys of S in the order of KeyOrder
Sorted(S) == FilterDeps(KeyOrder, S)

\* the identifiers that occur free in an expression of a field
RECURSIVE FreeVars(_)
FreeVars(t) ==
  IF t.tag = "Var" THEN {t.id}
  ELSE IF t.tag = "Op2" THEN FreeVars(t.l) \cup FreeVars(t.r)
  ELSE {}

\* share normal form: constants stay in place, any other expression is
\* moved to the cache and replaced by a fresh variable
IsConstant(t) == t.tag \in {"Null", "Bool", "Num", "Str", "Lbl", "Enum"}

Closurize(st, t, deps) ==
  IF IsConstant(t) THEN Step(st, t)
  ELSE LET fresh == IdentFresh(st.nfresh)
       IN Step([st EXCEPT !.cache = CacheAdd(st.cache, Closure(t, EnvNew), "Revertible", deps),
                          !.nfresh = st.nfresh + 1,
                          !.env = EnvInsert(st.env, fresh, Len(st.cache) + 1)],
               Var(fresh))

\* a pending contract written by the user is shared when `shared` is set
RECURSIVE ClosurizeContracts(_, _)
ClosurizeContracts(st, pcs) ==
  IF pcs = << >> THEN Step(st, << >>)
  ELSE LET collect(one, rest) == Step(rest.st, <<one.out>> \o rest.out)
           next(one) == collect(one, ClosurizeContracts(one.st, Tail(pcs)))
           share(pc, fresh) ==
             IF pc.shared
             THEN Step([st EXCEPT
                          !.cache = CacheAdd(st.cache, Closure(pc.contract, EnvNew),
                                             "Standard", {}),
                          !.nfresh = st.nfresh + 1,
                          !.env = EnvInsert(st.env, fresh, Len(st.cache) + 1)],
                       PendingContract(Var(fresh), pc.label))
             ELSE Step(st, PendingContract(pc.contract, pc.label))
       IN next(share(Head(pcs), IdentFresh(st.nfresh)))

\* the fields of a record literal, closurized one after the other
RECURSIVE ClosurizeFields(_, _, _, _)
ClosurizeFields(st, m, ord, src) ==
  IF ord = << >> THEN Step(st, m)
  ELSE LET f == src[Head(ord)]
           map_value(r) == Step(r.st, Some(r.out))
           insert(v, pcs) ==
             ClosurizeFields(pcs.st,
                             MapInsert(m, Head(ord), Field(f.metadata, v.out, pcs.out)),
                             Tail(ord), src)
           contracts(v) == insert(v, ClosurizeContracts(v.st, f.pending_contracts))
       IN contracts(IF f.value = None THEN Step(st, None)
                    ELSE map_value(Closurize(st, f.value[1],
                                             FreeVars(f.value[1]) \cap DOMAIN src)))

\* rec_env: the cache index of every field of a recursive record
RECURSIVE RecEnv(_, _, _, _, _)
RecEnv(cache, rec_env, ord, fields, env) ==
  IF ord = << >> THEN [cache |-> cache, rec_env |-> rec_env]
  ELSE LET id == Head(ord)
           value == fields[id].value
       IN IF value # None /\ value[1].tag = "Var"
          THEN RecEnv(cache, EnvInsert(rec_env, id, env[value[1].id]), Tail(ord), fields, env)
          ELSE RecEnv(CacheAdd(cache,
                               Closure(IF value = None THEN RuntimeError(MissingFieldDef(id))
                                       ELSE value[1], EnvNew),
                               "Standard", {}),
                      EnvInsert(rec_env, id, Len(cache) + 1), Tail(ord), fields, env)

\* the variables of a field: its value and its pending contracts
FieldVars(field) ==
  (IF field.value # None /\ field.value[1].tag = "Var" THEN {field.value[1].id} ELSE {})
  \cup {field.pending_contracts[i].contract.id :
          i \in {j \in 1..Len(field.pending_contracts) :
                   field.pending_contracts[j].contract.tag = "Var"}}

\* patch_field on every field: rebuild the current closure of each thunk
RECURSIVE PatchFields(_, _, _, _)
PatchFields(cache, idxs, rec_env, done) ==
  IF idxs = done THEN cache
  ELSE LET idx == CHOOSE i \in idxs \ done : TRUE
       IN PatchFields(CacheBuildCached(cache, idx, rec_env), idxs, rec_env, done \cup {idx})

\* evaluation of Term::RecRecord to Term::Record
Force(cache, closure) ==
  LET rec == closure.body.term
      idxs == {closure.env[v] :
                 v \in UNION {FieldVars(rec.fields[k]) : k \in DOMAIN rec.fields}}
      patch(re) ==
        [cache |-> PatchFields(re.cache, idxs, re.rec_env, {}),
         closure |-> Closure(RichTerm(Record(rec.fields, rec.attrs, rec.sealed_tail),
                                      closure.body.pos),
                             closure.env),
         rec_env |-> re.rec_env]
  IN patch(RecEnv(cache, EnvNew, Sorted(DOMAIN rec.fields), rec.fields, closure.env))

\* evaluation of an operand written in the source: a record literal is
\* closurized and forced, any other value is already in normal form
Construct(cache, nfresh, src, pos) ==
  IF src.tag # "Record"
  THEN [cache |-> cache, nfresh |-> nfresh, closure |-> AtomicClosure(RichTerm(src, pos))]
  ELSE LET forced_record(c, f) ==
             [cache |-> f.cache, nfresh |-> c.st.nfresh, closure |-> f.closure]
           closurized(c) ==
             forced_record(c,
               Force(c.st.cache,
                     Closure(RichTerm(RecRecord(c.out, src.attrs, src.sealed_tail), pos),
                             c.st.env)))
       IN closurized(ClosurizeFields(MergeState(cache, nfresh, EnvNew), MapEmpty,
                                     Sorted(DOMAIN src.fields), src.fields))

(***************************************************************************)
(* Operands.  A record operand is written as a record literal: a map from   *)
(* field names to fields whose values are expressions over the siblings.    *)
(***************************************************************************)
NoAnnotation == TypeAnnotation(None, << >>)

\* a field with a value or none, a priority, and no other metadata
Plain(value, priority) ==
  Field(FieldMetadata(None, NoAnnotation, FALSE, FALSE, priority), value, << >>)

Lit(n) == Num(Fin(n))

\* the expression `id + n`
Plus(id, n) == Op2("Plus", Var(id), Lit(n))

SrcRecord(fields, open, sealed_tail) == Record(fields, [open |-> open], sealed_tail)

\* the record with the fields fa, fb, fc (each Some(field) or None) under a, b, c
Rec3(fa, fb, fc) ==
  LET opt == [k \in Keys |-> IF k = "a" THEN fa ELSE IF k = "b" THEN fb ELSE fc]
  IN [k \in {x \in Keys : opt[x] # None} |-> opt[k][1]]

\* a record literal is well formed when every sibling it reads is one of its fields
WellFormed(fields) ==
  \A k \in DOMAIN fields :
    fields[k].value # None => FreeVars(fields[k].value[1]) \subseteq DOMAIN fields

OptionsA ==
  {None, Some(Plain(Some(Lit(1)), Neutral(0))), Some(Plain(Some(Lit(10)), Neutral(0))),
   Some(Plain(Some(Lit(1)), Bottom))}

OptionsB ==
  {None, Some(Plain(Some(Plus("a", 1)), Neutral(0))), Some(Plain(None, Neutral(0))),
   Some(Plain(Some(Lit(2)), Neutral(0)))}

OptionsC == {None, Some(Plain(Some(Plus("b", 1)), Neutral(0)))}

\* closed records without sealed tail whose fields read each other
GeneralRecords ==
  {SrcRecord(Rec3(fa, fb, fc), FALSE, None) :
     <<fa, fb, fc>> \in {x \in OptionsA \X OptionsB \X OptionsC : WellFormed(Rec3(x[1], x[2], x[3]))}}

\* the records appended to a chain of merges
Overrides ==
  {SrcRecord(Rec3(Some(Plain(Some(Op2("Plus", Lit(4), Lit(6))), Top)), None, None), FALSE, None),
   SrcRecord(Rec3(Some(Plain(Some(Lit(1)), Bottom)), Some(Plain(Some(Plus("a", 2)), Top)), None),
             FALSE, None),
   SrcRecord(Rec3(None, None, Some(Plain(Some(Lit(7)), Neutral(0)))), TRUE, None)}

\* the call stacks of depth at most MaxStack
RECURSIVE Frames(_)
Frames(n) == IF n = 0 THEN << >> ELSE Append(Frames(n - 1), "frame")

Stacks == {Frames(n) : n \in 0..MaxStack}

Input(src1, src2, mode, stack) ==
  [src1 |-> src1, src2 |-> src2, mode |-> mode, stack |-> stack]

LabelC == Label("contract")

GeneralInputs ==
  {Input(r1, r2, Standard, Frames(MaxStack)) : <<r1, r2>> \in GeneralRecords \X GeneralRecords}

Priorities == {Bottom, Top} \cup {Neutral(n) : n \in 0..MaxPrio}

\* the fields of the records that are merged to compare priorities
PriorityFields ==
  {Plain(v, p) : <<v, p>> \in {None, Some(Lit(1)), Some(Lit(10)),
                              Some(Op2("Plus", Lit(4), Lit(6)))} \X Priorities}

Single(k, f) == [x \in {k} |-> f]

\* two records with the one field a, of any value and priority
PriorityInputs ==
  {Input(SrcRecord(Single("a", f1), FALSE, None), SrcRecord(Single("a", f2), FALSE, None),
         Standard, Frames(MaxStack)) : <<f1, f2>> \in PriorityFields \X PriorityFields}

\* a type or contract of an annotation, with its label
LabeledType(typ, label) == [typ |-> typ, label |-> label]

\* the contract a type stands for: a function of the checked value
ContractOf(typ) == Fun(typ, Var(typ))

\* a pending contract of a record literal
UserContract(typ, label, shared) ==
  [contract |-> ContractOf(typ), label |-> label, shared |-> shared]

\* the field `k = n` of a value and the field `k | Num` of a record contract
ValueField(n) == Plain(Some(Lit(n)), Neutral(0))

ContractField(k) ==
  Field(FieldMetadata(None, TypeAnnotation(None, <<LabeledType("Num", Label(k))>>),
                      FALSE, FALSE, Neutral(0)),
        None, <<UserContract("Num", Label(k), TRUE)>>)

ContractKeys == {"x", "y", "z"}

\* the values { x = 1, y = 2, z = 3 } restricted to some of the keys
ValueRecords ==
  {SrcRecord([k \in S |-> ValueField(IF k = "x" THEN 1 ELSE IF k = "y" THEN 2 ELSE 3)],
             FALSE, None) : S \in SUBSET ContractKeys}

\* the record contracts { x | Num, y | Num, z | Num } restricted to some of
\* the keys, closed or open
ContractRecords ==
  {SrcRecord([k \in x[1] |-> ContractField(k)], x[2], None) :
     x \in (SUBSET ContractKeys) \X BOOLEAN}

\* a value checked against a record contract; and, for the evaluation that
\* follows a merge, the same operands merged in Standard mode
ContractInputs ==
  {Input(x[1], x[2], Contract(LabelC), x[3]) :
     x \in ValueRecords \X ContractRecords \X Stacks}
  \cup {Input(x[1], x[2], Standard, << >>) : x \in ValueRecords \X ContractRecords}

\* a field with metadata; every type and contract of the annotation has its
\* pending contract
MetaField(doc, types, contracts, opt, not_exported, priority, value) ==
  Field(FieldMetadata(doc, TypeAnnotation(types, contracts), opt, not_exported, priority),
        value,
        [i \in 1..Len(types \o contracts) |->
           UserContract((types \o contracts)[i].typ, (types \o contracts)[i].label, TRUE)])

\* fields that differ in documentation, priority and value; in the optional
\* and not-exported flags; in the type and the contracts of the annotation
MetaFields ==
  {MetaField(d, None, << >>, FALSE, FALSE, p, v) :
     d \in {None, Some("d1"), Some("d2")}, p \in {Neutral(0), Top},
     v \in {None, Some(Lit(1))}}
  \cup {MetaField(None, None, << >>, o, n, Neutral(0), Some(Lit(1))) : o \in BOOLEAN, n \in BOOLEAN}
  \cup {MetaField(None, t, c, FALSE, FALSE, Neutral(0), Some(Lit(2))) :
          t \in {None, Some(LabeledType("Num", Label("Num"))),
                  Some(LabeledType("Str", Label("Str")))},
          c \in {<< >>, <<LabeledType("Bool", Label("Bool"))>>}}

\* two records with the one field a
MetaInputs ==
  {Input(SrcRecord(Single("a", f1), FALSE, None), SrcRecord(Single("a", f2), FALSE, None),
         Standard, Frames(MaxStack)) : f1 \in MetaFields, f2 \in MetaFields}

\* the values merge handles as values
Atoms ==
  {Null, Bool(TRUE), Bool(FALSE), Lit(0), Lit(1), Num(Inf(1)), Num(Inf(-1)), Num(NaN),
   Str("s"), Str("t"), Lbl(Label("l")), Enum("e"), Enum("f"),
   Array(<< >>, ArrayAttrsNew), Array(<<Lit(1)>>, ArrayAttrsNew)}

\* two values in either mode; and, for the evaluation that follows a merge,
\* two records
AtomInputs ==
  {Input(v1, v2, m, st) :
     v1 \in Atoms, v2 \in Atoms, m \in {Standard, Contract(LabelC)}, st \in Stacks}
  \cup {Input(SrcRecord(Single("a", ValueField(n1)), FALSE, None),
               SrcRecord(Single("a", ValueField(n2)), FALSE, None), Standard, << >>) :
          n1 \in {1, 2}, n2 \in {1, 2}}

\* a sealed tail; merge reads its label only
SealedTail(id) == [label |-> Label(id)]

\* records with and without a sealed tail, and values that are not records
SealedOperands ==
  {SrcRecord(Single("a", Plain(Some(Lit(1)), Neutral(0))), FALSE, None),
   SrcRecord(Single("b", Plain(Some(Lit(2)), Neutral(0))), TRUE, None),
   SrcRecord(Single("a", Plain(Some(Lit(1)), Neutral(0))), FALSE, Some(SealedTail("tail1"))),
   SrcRecord(Single("b", Plain(Some(Lit(2)), Neutral(0))), TRUE, Some(SealedTail("tail2"))),
   SrcRecord(MapEmpty, FALSE, Some(SealedTail("tail3"))),
   Lit(1), Null}

SealedInputs ==
  {Input(x[1], x[2], x[3], x[4]) :
     x \in SealedOperands \X SealedOperands \X {Standard, Contract(LabelC)} \X Stacks}

(***************************************************************************)
(* The evaluator as a state machine: two evaluated operands are merged,     *)
(* the merged record is forced, its fields are evaluated, and the forced    *)
(* record is merged with a further record.                                  *)
(***************************************************************************)
VARIABLES
  cache,       \* the value cache
  nfresh,      \* the counter of Ident::fresh
  t1, env1,    \* the left operand of the merge, a rich term, and its environment
  t2, env2,    \* the right operand
  pos_op,      \* the position of the merge operator
  mode,        \* the merge mode
  call_stack,  \* the evaluator's call stack
  result,      \* what the last merge returned, None before the call
  forced,      \* the merged record once forced, with the index of every field
  observed,    \* what the evaluation of each field of the forced record gave
  pc,          \* "ready", "merged", "forced" or "evaluated"
  chain,       \* the number of records merged onto the first result
  cache0,      \* the cache on entry to the last merge
  stack0,      \* the call stack on entry to the last merge
  mainline,    \* the evaluator term handed to the bridge, None if there is none
  ast,         \* what the bridge made of it, None before the conversion
  back         \* what the bridge made of ast on the way back, None before

vars == <<cache, nfresh, t1, env1, t2, env2, pos_op, mode, call_stack, result,
          forced, observed, pc, chain, cache0, stack0, mainline, ast, back>>

Pos1 == PosOriginal("t1")

Pos2 == PosOriginal("t2")

PosOp == PosOriginal("op")

\* the arguments of a call of merge; with `unbound` set, the caller passes
\* an environment env1 that binds none of the variables of t1
InitWith(inputs, unbounds) ==
  \E i \in inputs, unbound \in unbounds :
    \E c1 \in {Construct(<< >>, 0, i.src1, Pos1)} :
    \E c2 \in {Construct(c1.cache, c1.nfresh, i.src2, Pos2)} :
       /\ cache = c2.cache
       /\ nfresh = c2.nfresh
       /\ t1 = c1.closure.body
       /\ env1 = (IF unbound THEN EnvNew ELSE c1.closure.env)
       /\ t2 = c2.closure.body
       /\ env2 = c2.closure.env
       /\ pos_op = PosOp
       /\ mode = i.mode
       /\ call_stack = i.stack
       /\ result = None
       /\ forced = None
       /\ observed = None
       /\ pc = "ready"
       /\ chain = 0
       /\ cache0 = c2.cache
       /\ stack0 = i.stack
       /\ mainline = None
       /\ ast = None
       /\ back = None

\* the arguments the evaluator passes: every variable is bound
InitFrom(inputs) == InitWith(inputs, {FALSE})

\* the keys of the three parts of the split of the operands
KeysOf(t) == IF t.term.tag = "Record" THEN DOMAIN t.term.fields ELSE {}

LeftKeys == KeysOf(t1) \ KeysOf(t2)

CenterKeys == KeysOf(t1) \cap KeysOf(t2)

RightKeys == KeysOf(t2) \ KeysOf(t1)

\* the evaluator calls merge on the two operands
Merge ==
  /\ pc = "ready"
  /\ \E ordL \in Orders(LeftKeys), ordC \in Orders(CenterKeys), ordR \in Orders(RightKeys) :
       \E o \in {merge(cache, nfresh, t1, env1, t2, env2, pos_op, mode, call_stack,
                        ordL, ordC, ordR)} :
          /\ result' = Some(o.res)
          /\ cache' = o.cache
          /\ nfresh' = o.nfresh
          /\ call_stack' = o.call_stack
  /\ cache0' = cache
  /\ stack0' = call_stack
  /\ pc' = "merged"
  /\ UNCHANGED <<t1, env1, t2, env2, pos_op, mode, forced, observed, chain,
                 mainline, ast, back>>

\* the merge returned a record
IsRecordResult ==
  /\ result # None
  /\ result[1].tag = "Ok"
  /\ result[1].closure.body.term.tag = "RecRecord"

\* the evaluator forces the recursive record returned by merge
ForceResult ==
  /\ pc = "merged"
  /\ IsRecordResult
  /\ \E f \in {Force(cache, result[1].closure)} :
        /\ cache' = f.cache
        /\ forced' = Some([closure |-> f.closure, rec_env |-> f.rec_env])
  /\ pc' = "forced"
  /\ UNCHANGED <<nfresh, t1, env1, t2, env2, pos_op, mode, call_stack, result,
                 observed, chain, cache0, stack0, mainline, ast, back>>

\* the evaluation of the fields `ord` of a forced record, one after the other
RECURSIVE EvalAll(_, _, _, _)
EvalAll(c, ord, rec_env, acc) ==
  IF ord = << >> THEN [cache |-> c, out |-> acc]
  ELSE LET next(r) == EvalAll(r.cache, Tail(ord), rec_env, MapInsert(acc, Head(ord), r.res))
       IN next(Eval(c, Var(Head(ord)), rec_env))

\* the evaluator evaluates every field of the forced record
EvalFields ==
  /\ pc = "forced"
  /\ \E r \in {EvalAll(cache, Sorted(DOMAIN forced[1].rec_env), forced[1].rec_env,
                        MapEmpty)} :
        /\ cache' = r.cache
        /\ observed' = Some(r.out)
  /\ pc' = "evaluated"
  /\ UNCHANGED <<nfresh, t1, env1, t2, env2, pos_op, mode, call_stack, result,
                 forced, chain, cache0, stack0, mainline, ast, back>>

\* the evaluated record is merged with a further record, in Standard mode
Chain ==
  /\ pc = "evaluated"
  /\ chain < MaxChain
  /\ mode = Standard
  /\ \E src \in Overrides :
       \E c \in {Construct(cache, nfresh, src, Pos2)} :
          /\ cache' = c.cache
          /\ nfresh' = c.nfresh
          /\ t2' = c.closure.body
          /\ env2' = c.closure.env
          /\ cache0' = c.cache
  /\ t1' = forced[1].closure.body
  /\ env1' = forced[1].closure.env
  /\ result' = None
  /\ forced' = None
  /\ observed' = None
  /\ chain' = chain + 1
  /\ pc' = "ready"
  /\ UNCHANGED <<pos_op, mode, call_stack, stack0, mainline, ast, back>>

Next == Merge \/ ForceResult \/ EvalFields \/ Chain

Init == InitFrom(GeneralInputs)

Spec == Init /\ [][Next]_vars

InitPriority == InitFrom(PriorityInputs)

SpecPriority == InitPriority /\ [][Next]_vars

InitSealed == InitFrom(SealedInputs)

SpecSealed == InitSealed /\ [][Next]_vars

InitContract == InitFrom(ContractInputs)

SpecContract == InitContract /\ [][Next]_vars

InitMeta == InitFrom(MetaInputs)

SpecMeta == InitMeta /\ [][Next]_vars

InitAtom == InitFrom(AtomInputs)

SpecAtom == InitAtom /\ [][Next]_vars

InitUnbound == InitWith(PriorityInputs, BOOLEAN)

SpecUnbound == InitUnbound /\ [][Next]_vars

\* fields that differ in their pending contracts, their priority and their
\* value: none, a constant, or an expression held in the cache; a contract
\* may occur twice in a list
PendingFields ==
  {Field(FieldMetadata(None, TypeAnnotation(None, << >>), FALSE, FALSE, p), v,
         [i \in 1..Len(c) |-> UserContract(c[i], Label(c[i]), TRUE)]) :
     p \in {Neutral(0), Top},
     v \in {None, Some(Lit(1)), Some(Op2("Plus", Lit(4), Lit(6)))},
     c \in {<< >>, <<"Num">>, <<"Num", "Str">>, <<"Str", "Num">>, <<"Num", "Num">>}}

\* two records with the one field a
PendingInputs ==
  {Input(SrcRecord(Single("a", f1), FALSE, None), SrcRecord(Single("a", f2), FALSE, None),
         Standard, Frames(MaxStack)) : f1 \in PendingFields, f2 \in PendingFields}

InitPending == InitFrom(PendingInputs)

SpecPending == InitPending /\ [][Next]_vars

\* the values of a field b that depends on its siblings a and c, on one of
\* them, or on none
DepsValues ==
  {Plus("a", 1), Plus("c", 1), Op2("Plus", Var("a"), Var("c")), Op2("Plus", Lit(4), Lit(6)),
   Lit(2)}

\* two records { a = 1, b = .., c = 3 }
DepsInputs ==
  {Input(SrcRecord(Rec3(Some(Plain(Some(Lit(1)), Neutral(0))),
                        Some(Plain(Some(v1), Neutral(0))),
                        Some(Plain(Some(Lit(3)), Neutral(0)))), FALSE, None),
         SrcRecord(Rec3(Some(Plain(Some(Lit(1)), Neutral(0))),
                        Some(Plain(Some(v2), Neutral(0))),
                        Some(Plain(Some(Lit(3)), Neutral(0)))), FALSE, None),
         Standard, Frames(MaxStack)) : v1 \in DepsValues, v2 \in DepsValues}

InitDeps == InitFrom(DepsInputs)

SpecDeps == InitDeps /\ [][Next]_vars

(***************************************************************************)
(* The bridge from evaluator terms to the AST of the parser                 *)
(* (core/src/bytecode/ast/compat.rs).  An operator is a record with its     *)
(* name and the data of its variant; a conversion that panics gives         *)
(* Panicked, one that returns gives Converted.                              *)
(***************************************************************************)
Converted(v) == [panicked |-> FALSE, v |-> v]

Panicked(what) == [panicked |-> TRUE, what |-> what]

\* the binary operators whose variant carries no data and which the bridge maps
\* to the primitive operation of the same name
PlainBinaryOps ==
  {"Plus", "Sub", "Mult", "Div", "Modulo", "NumberArcTan2", "NumberLog", "Pow",
   "StringConcat", "Eq", "LessThan", "LessOrEq", "GreaterThan", "GreaterOrEq",
   "ContractApply", "ContractCheck", "LabelWithErrorData", "LabelGoField",
   "RecordGet", "RecordSplitPair", "RecordDisjointMerge", "ArrayConcat", "ArrayAt",
   "Hash", "Serialize", "Deserialize", "StringSplit", "StringContains",
   "StringCompare", "ContractArrayLazyApp", "ContractRecordLazyApp",
   "LabelWithMessage", "LabelWithNotes", "LabelAppendNote", "LabelLookupTypeVar"}

\* impl From<&term::BinaryOp> for PrimOp
PrimOpFromBinaryOp(op) ==
  CASE op.name \in PlainBinaryOps -> Converted([prim |-> op.name])
    [] op.name = "RecordInsert" ->
         IF op.metadata_empty /\ op.pending_contracts_empty /\ op.ext_kind = "WithValue"
         THEN Converted([prim |-> "RecordInsert", op_kind |-> op.op_kind])
         ELSE Panicked(<<"didn't expect ", op.name, " at the parsing stage">>)
    [] op.name \in {"RecordRemove", "RecordHasField", "RecordFieldIsDefined"} ->
         Converted([prim |-> op.name, op_kind |-> op.op_kind])
    [] op.name = "Merge" -> Converted([prim |-> "Merge", kind |-> op.merge_label.kind])
    [] op.name \in {"Unseal", "Seal"} ->
         Panicked(<<"didn't expect ", op.name, " at the parsing stage">>)

\* the unary operators whose variant carries no data and which the bridge maps
\* to the primitive operation of the same name
PlainUnaryOps ==
  {"Typeof", "BoolAnd", "BoolOr", "BoolNot", "Blame", "ArrayMap", "RecordMap",
   "LabelFlipPol", "LabelPol", "LabelGoDom", "LabelGoCodom", "LabelGoArray",
   "LabelGoDict", "Seq", "DeepSeq", "ArrayLength", "ArrayGen", "RecordValues",
   "StringTrim", "StringChars", "StringUppercase", "StringLowercase", "StringLength",
   "ToString", "NumberFromString", "EnumFromString", "StringIsMatch", "StringFind",
   "StringFindAll", "RecordEmptyWithTail", "Trace", "LabelPushDiag", "EnumGetArg",
   "EnumMakeVariant", "EnumIsVariant", "EnumGetTag", "ContractCustom", "NumberArcCos",
   "NumberArcSin", "NumberArcTan", "NumberCos", "NumberSin", "NumberTan"}

\* the unary operators that only evaluation creates
RuntimeUnaryOps ==
  {"TagsOnlyMatch", "ChunksConcat", "StringIsMatchCompiled", "StringFindCompiled",
   "StringFindAllCompiled", "RecDefault", "RecForce", "PatternBranch",
   "ContractPostprocessResult"}

\* impl From<&term::UnaryOp> for PrimOp
PrimOpFromUnaryOp(op) ==
  CASE op.name = "IfThenElse" ->
         Panicked(<<"if-then-else should have been handed separately by special casing">>)
    [] op.name \in PlainUnaryOps -> Converted([prim |-> op.name])
    [] op.name = "EnumEmbed" -> Converted([prim |-> "EnumEmbed", id |-> op.id])
    [] op.name = "RecordAccess" -> Converted([prim |-> "RecordStatAccess", id |-> op.id])
    [] op.name = "RecordFields" ->
         Converted([prim |-> "RecordFields", op_kind |-> op.op_kind])
    [] op.name = "Force" ->
         Converted([prim |-> "Force", ignore_not_exported |-> op.ignore_not_exported])
    [] op.name \in RuntimeUnaryOps ->
         Panicked(<<"didn't expect ", op.name, " at the parsing stage">>)

\* impl From<&term::NAryOp> for PrimOp
PrimOpFromNAryOp(op) ==
  CASE op.name \in {"StringReplace", "StringReplaceRegex", "StringSubstr", "MergeContract",
                    "RecordSealTail", "RecordUnsealTail", "LabelInsertTypeVar",
                    "ArraySlice"} -> [prim |-> op.name]

\* a swap that leaves the slice as it is
SliceSwapKept(s, a, b) == Converted(s)

\* slice::swap(a, b), with the indices of Rust, from 0
SliceSwap(s, a, b) ==
  IF a >= Len(s) \/ b >= Len(s) THEN Panicked(<<"index out of bounds">>)
  ELSE Converted([k \in 1..Len(s) |-> IF k = a + 1 THEN s[b + 1]
                                      ELSE IF k = b + 1 THEN s[a + 1] ELSE s[k]])

\* Node::PrimOpApp { op, args }
PrimOpApp(op, args) == [variant |-> "PrimOpApp", op |-> op, args |-> args]

\* Node::App { fun, args }
AppNode(fun, args) == [variant |-> "App", fun |-> fun, args |-> args]

\* Node::IfThenElse { cond, then_branch, else_branch }
IfThenElseNode(cond, then_branch, else_branch) ==
  [variant |-> "IfThenElse", cond |-> cond, then_branch |-> then_branch,
   else_branch |-> else_branch]

\* Iterator::rev
Rev(s) == [k \in 1..Len(s) |-> s[Len(s) + 1 - k]]

\* Ast { node, pos }
Ast(node, pos) == [node |-> node, pos |-> pos]

RECURSIVE FromMainlineTerm(_, _)
RECURSIVE FromMainlineRichTerm(_, _)
RECURSIVE FromMainlineArgs(_, _)
RECURSIVE AppArgs(_, _, _)
\* impl FromMainline<term::Term> for Node, on the constants, the variables,
\* the applications and the applications of unary, binary and n-ary
\* operators; debug is whether the build keeps its debug assertions
FromMainlineTerm(term, debug) ==
  CASE term.tag = "Null" -> Converted([variant |-> "Null"])
    [] term.tag = "Bool" -> Converted([variant |-> "Bool", b |-> term.b])
    [] term.tag = "Num" -> Converted([variant |-> "Number", n |-> term.x])
    [] term.tag = "Str" -> Converted([variant |-> "String", s |-> term.s])
    [] term.tag = "Var" -> Converted([variant |-> "Var", id |-> term.id])
    [] term.tag = "App" ->
         IF /\ term.f.term.tag = "App"
            /\ term.f.term.f.term.tag = "Op1"
            /\ term.f.term.f.term.op.name = "IfThenElse"
         THEN LET third(cond, then_branch, else_branch) ==
                    IF else_branch.panicked THEN else_branch
                    ELSE Converted(IfThenElseNode(cond, then_branch, else_branch.v))
                  second(cond, then_branch) ==
                    IF then_branch.panicked THEN then_branch
                    ELSE third(cond, then_branch.v, FromMainlineRichTerm(term.arg, debug))
                  first(cond) ==
                    IF cond.panicked THEN cond
                    ELSE second(cond.v, FromMainlineRichTerm(term.f.term.arg, debug))
              IN first(FromMainlineRichTerm(term.f.term.f.term.arg, debug))
         ELSE LET applied(args, fun) ==
                    IF fun.panicked THEN fun ELSE Converted(AppNode(fun.v, Rev(args)))
                  looped(args) ==
                    IF args.panicked THEN args
                    ELSE applied(args.v, FromMainlineRichTerm(term.f, debug))
                  pushed(arg) ==
                    IF arg.panicked THEN arg
                    ELSE looped(AppArgs(term.f.term, <<arg.v>>, debug))
              IN pushed(FromMainlineRichTerm(term.arg, debug))
    [] term.tag = "Op1" ->
         LET once(op, arg) ==
               IF arg.panicked THEN arg ELSE Converted(PrimOpApp(op, <<arg.v>>))
             from(op) ==
               IF op.panicked THEN op
               ELSE once(op.v, FromMainlineRichTerm(term.arg, debug))
         IN from(PrimOpFromUnaryOp(term.op))
    [] term.tag = "Op2" ->
         LET swapped(op, args) ==
               IF op.prim \in {"ArrayAt", "StringContains"}
               THEN PrimOpApp(op, SliceSwap(args, 0, 1).v)
               ELSE PrimOpApp(op, args)
             second(op, arg1, arg2) ==
               IF arg2.panicked THEN arg2 ELSE Converted(swapped(op, <<arg1, arg2.v>>))
             first(op, arg1) ==
               IF arg1.panicked THEN arg1
               ELSE second(op, arg1.v, FromMainlineRichTerm(term.r, debug))
             from(op) ==
               IF op.panicked THEN op
               ELSE first(op.v, FromMainlineRichTerm(term.l, debug))
         IN from(PrimOpFromBinaryOp(term.op))
    [] term.tag = "OpN" ->
         LET applied(op, args) ==
               IF args.panicked THEN args ELSE Converted(PrimOpApp(op, args.v))
             rotated(op, args) ==
               IF args.panicked THEN args ELSE applied(op, SliceSwap(args.v, 1, 2))
             collected(op, args) ==
               IF args.panicked THEN args
               ELSE IF op.prim = "StringSubstr"
               THEN IF debug /\ Len(args.v) # 3
                    THEN Panicked(<<"assertion failed: args.len() == 3">>)
                    ELSE rotated(op, SliceSwap(args.v, 0, 1))
               ELSE applied(op, args)
         IN collected(PrimOpFromNAryOp(term.op), FromMainlineArgs(term.args, debug))

\* while let Term::App(next_fun, next_arg) = maybe_next_app: the arguments
\* found along the functions of the application, pushed after args
AppArgs(maybe_next_app, args, debug) ==
  IF maybe_next_app.tag = "App"
  THEN LET pushed(next_arg) ==
             IF next_arg.panicked THEN next_arg
             ELSE AppArgs(maybe_next_app.f.term, Append(args, next_arg.v), debug)
       IN pushed(FromMainlineRichTerm(maybe_next_app.arg, debug))
  ELSE Converted(args)

\* impl FromMainline<term::RichTerm> for Ast
FromMainlineRichTerm(rterm, debug) ==
  LET located(node) == IF node.panicked THEN node ELSE Converted(Ast(node.v, rterm.pos))
  IN located(FromMainlineTerm(rterm.term, debug))

\* args.iter().map(|arg| arg.to_ast(alloc)).collect()
FromMainlineArgs(args, debug) ==
  IF args = << >> THEN Converted(<< >>)
  ELSE LET rest(head, tail) ==
             IF tail.panicked THEN tail ELSE Converted(<<head>> \o tail.v)
           next(head) ==
             IF head.panicked THEN head
             ELSE rest(head.v, FromMainlineArgs(Tail(args), debug))
       IN next(FromMainlineRichTerm(Head(args), debug))

\* TermPos::unwrap: the span of a position that is set
TermPosUnwrap(pos) ==
  IF pos.kind = "None" THEN Panicked(<<"unwrap of a position that is not set">>)
  ELSE Converted(pos.span)

\* RawSpan { start, end } of the spans of the applications, by name, all
\* of one source file
RawSpans ==
  [s \in {"0-1", "2-3", "4-5", "6-11", "7-8", "9-10", "0-3", "0-5", "0-11", "7-10"} |->
     CASE s = "0-1" -> [start |-> 0, end |-> 1]
       [] s = "2-3" -> [start |-> 2, end |-> 3]
       [] s = "4-5" -> [start |-> 4, end |-> 5]
       [] s = "6-11" -> [start |-> 6, end |-> 11]
       [] s = "7-8" -> [start |-> 7, end |-> 8]
       [] s = "9-10" -> [start |-> 9, end |-> 10]
       [] s = "0-3" -> [start |-> 0, end |-> 3]
       [] s = "0-5" -> [start |-> 0, end |-> 5]
       [] s = "0-11" -> [start |-> 0, end |-> 11]
       [] s = "7-10" -> [start |-> 7, end |-> 10]]

\* RawSpan::fuse: the smallest span that covers both
Fuse(span1, span2) ==
  LET covering(start, end) ==
        Some(CHOOSE s \in DOMAIN RawSpans : RawSpans[s] = [start |-> start, end |-> end])
      from(start) ==
        IF RawSpans[span1].end >= RawSpans[span2].end
        THEN covering(start, RawSpans[span1].end)
        ELSE covering(start, RawSpans[span2].end)
  IN IF RawSpans[span1].start <= RawSpans[span2].start
     THEN from(RawSpans[span1].start)
     ELSE from(RawSpans[span2].start)

\* impl From<Option<RawSpan>> for TermPos
TermPosFrom(span) == IF span = None THEN PosNone ELSE PosOriginal(span[1])

\* the span of Label::dummy()
DummySpan == "dummy"

\* impl FromAst<PrimOp> for TermPrimOp
FromAstPrimOp(op) ==
  CASE op.prim \in PlainUnaryOps -> [arity |-> "Unary", op |-> [name |-> op.prim]]
    [] op.prim = "EnumEmbed" ->
         [arity |-> "Unary", op |-> [name |-> "EnumEmbed", id |-> op.id]]
    [] op.prim = "RecordStatAccess" ->
         [arity |-> "Unary", op |-> [name |-> "RecordAccess", id |-> op.id]]
    [] op.prim = "RecordFields" ->
         [arity |-> "Unary", op |-> [name |-> "RecordFields", op_kind |-> op.op_kind]]
    [] op.prim = "Force" ->
         [arity |-> "Unary",
          op |-> [name |-> "Force", ignore_not_exported |-> op.ignore_not_exported]]
    [] op.prim \in PlainBinaryOps -> [arity |-> "Binary", op |-> [name |-> op.prim]]
    [] op.prim = "RecordInsert" ->
         [arity |-> "Binary",
          op |-> [name |-> "RecordInsert", metadata_empty |-> TRUE,
                  pending_contracts_empty |-> TRUE, ext_kind |-> "WithValue",
                  op_kind |-> op.op_kind]]
    [] op.prim \in {"RecordRemove", "RecordHasField", "RecordFieldIsDefined"} ->
         [arity |-> "Binary", op |-> [name |-> op.prim, op_kind |-> op.op_kind]]
    [] op.prim = "Merge" ->
         [arity |-> "Binary",
          op |-> [name |-> "Merge", merge_label |-> [span |-> DummySpan, kind |-> op.kind]]]
    [] op.prim \in {"StringReplace", "StringReplaceRegex", "StringSubstr", "MergeContract",
                    "RecordSealTail", "RecordUnsealTail", "LabelInsertTypeVar",
                    "ArraySlice"} -> [arity |-> "NAry", op |-> [name |-> op.prim]]

\* term::make::if_then_else: the condition under the operator, applied to
\* the two branches, at no position
MakeIfThenElse(cond, then_branch, else_branch) ==
  RichTerm(App(RichTerm(App(RichTerm(Op1([name |-> "IfThenElse"], cond), PosNone),
                            then_branch), PosNone),
               else_branch), PosNone)

RECURSIVE FromAstNode(_)
RECURSIVE FromAstAst(_)
RECURSIVE FromAstArgs(_)
RECURSIVE AppFold(_, _, _)
\* impl FromAst<Node> for term::Term, on the nodes the other direction makes
FromAstNode(node) ==
  CASE node.variant = "Null" -> Converted(Null)
    [] node.variant = "Bool" -> Converted(Bool(node.b))
    [] node.variant = "Number" -> Converted(Num(node.n))
    [] node.variant = "String" -> Converted(Str(node.s))
    [] node.variant = "Var" -> Converted(Var(node.id))
    [] node.variant = "App" ->
         LET owned(rterm) == IF rterm.panicked THEN rterm ELSE Converted(rterm.v.term)
             folded(fun_span, fun) ==
               IF fun.panicked THEN fun ELSE owned(AppFold(fun_span, fun.v, node.args))
             spanned(fun_span) ==
               IF fun_span.panicked THEN fun_span
               ELSE folded(fun_span.v, FromAstAst(node.fun))
         IN spanned(TermPosUnwrap(node.fun.pos))
    [] node.variant = "IfThenElse" ->
         LET third(cond, then_branch, else_branch) ==
               IF else_branch.panicked THEN else_branch
               ELSE Converted(MakeIfThenElse(cond, then_branch, else_branch.v).term)
             second(cond, then_branch) ==
               IF then_branch.panicked THEN then_branch
               ELSE third(cond, then_branch.v, FromAstAst(node.else_branch))
             first(cond) ==
               IF cond.panicked THEN cond
               ELSE second(cond.v, FromAstAst(node.then_branch))
         IN first(FromAstAst(node.cond))
    [] node.variant = "PrimOpApp" ->
         LET unary(op, arg) == IF arg.panicked THEN arg ELSE Converted(Op1(op, arg.v))
             binary(op, arg1, arg2) ==
               IF arg2.panicked THEN arg2 ELSE Converted(Op2(op, arg1, arg2.v))
             left(op, arg1) ==
               IF arg1.panicked THEN arg1
               ELSE IF Len(node.args) < 2 THEN Panicked(<<"index out of bounds">>)
               ELSE binary(op, arg1.v, FromAstAst(node.args[2]))
             nary(op, args) == IF args.panicked THEN args ELSE Converted(OpN(op, args.v))
             to(pop) ==
               CASE pop.arity = "Unary" ->
                      IF Len(node.args) < 1 THEN Panicked(<<"index out of bounds">>)
                      ELSE unary(pop.op, FromAstAst(node.args[1]))
                 [] pop.arity = "Binary" ->
                      IF Len(node.args) < 1 THEN Panicked(<<"index out of bounds">>)
                      ELSE left(pop.op, FromAstAst(node.args[1]))
                 [] pop.arity = "NAry" -> nary(pop.op, FromAstArgs(node.args))
         IN to(FromAstPrimOp(node.op))

\* args.iter().fold(fun.to_mainline(), ..): acc, the result so far, applied
\* to the arguments one after the other
AppFold(fun_span, acc, args) ==
  IF args = << >> THEN Converted(acc)
  ELSE LET applied(span, arg) ==
             IF arg.panicked THEN arg
             ELSE AppFold(fun_span, RichTerm(App(acc, arg.v), TermPosFrom(span)),
                          Tail(args))
           fused(span_arg) ==
             IF span_arg.panicked THEN span_arg
             ELSE applied(Fuse(fun_span, span_arg.v), FromAstAst(Head(args)))
       IN fused(TermPosUnwrap(Head(args).pos))

\* impl FromAst<Ast> for term::RichTerm
FromAstAst(ast_) ==
  LET labelled(term, span) ==
        IF span.panicked THEN span
        ELSE Converted(RichTerm([term EXCEPT !.op.merge_label.span = span.v], ast_.pos))
      patched(term) ==
        IF term.panicked THEN term
        ELSE IF term.v.tag = "Op2" /\ term.v.op.name = "Merge"
        THEN labelled(term.v, TermPosUnwrap(ast_.pos))
        ELSE Converted(RichTerm(term.v, ast_.pos))
  IN patched(FromAstNode(ast_.node))

\* args.iter().map(|arg| (*arg).to_mainline()).collect()
FromAstArgs(args) ==
  IF args = << >> THEN Converted(<< >>)
  ELSE LET rest(head, tail) ==
             IF tail.panicked THEN tail ELSE Converted(<<head>> \o tail.v)
           next(head) ==
             IF head.panicked THEN head ELSE rest(head.v, FromAstArgs(Tail(args)))
       IN next(FromAstAst(Head(args)))

\* the binary operators of the evaluator
BinaryOps ==
  {[name |-> n] : n \in PlainBinaryOps \cup {"Unseal", "Seal"}}
  \cup {[name |-> n, op_kind |-> k] :
          n \in {"RecordRemove", "RecordHasField", "RecordFieldIsDefined"},
          k \in {"IgnoreEmptyOpt", "ConsiderAllFields"}}
  \cup {[name |-> "RecordInsert", metadata_empty |-> m, pending_contracts_empty |-> p,
         ext_kind |-> e, op_kind |-> k] :
          m \in BOOLEAN, p \in BOOLEAN, e \in {"WithValue", "WithoutValue"},
          k \in {"IgnoreEmptyOpt", "ConsiderAllFields"}}
  \cup {[name |-> "Merge", merge_label |-> [span |-> "op", kind |-> k]] :
          k \in {"Standard", "PiecewiseDef"}}

\* the n-ary operators of the evaluator
NAryOps ==
  {[name |-> n] : n \in {"StringReplace", "StringReplaceRegex", "StringSubstr",
                         "MergeContract", "RecordSealTail", "RecordUnsealTail",
                         "LabelInsertTypeVar", "ArraySlice"}}

\* the greatest number of operands of an n-ary operator
MaxArgs == 4

\* the operands: a variable, a number, and an application whose own operands
\* the bridge swaps, each at its own position
Operands ==
  {RichTerm(Var("x"), PosOriginal("a")),
   RichTerm(Num(Fin(1)), PosOriginal("b")),
   RichTerm(Op2([name |-> "ArrayAt"], RichTerm(Var("x"), PosOriginal("d")),
                RichTerm(Num(Fin(0)), PosOriginal("e"))), PosOriginal("c"))}

\* the unary operators of the evaluator
UnaryOps ==
  {[name |-> n] : n \in PlainUnaryOps \cup RuntimeUnaryOps \cup {"IfThenElse"}}
  \cup {[name |-> n, id |-> "x"] : n \in {"EnumEmbed", "RecordAccess"}}
  \cup {[name |-> "RecordFields", op_kind |-> k] :
          k \in {"IgnoreEmptyOpt", "ConsiderAllFields"}}
  \cup {[name |-> "Force", ignore_not_exported |-> b] : b \in BOOLEAN}

\* the greatest number of arguments of a curried application
MaxApp == 3

\* the arguments of the applications: a variable, a number and an
\* application, each at its own span
AppOperands ==
  {RichTerm(Var("x"), PosOriginal("2-3")),
   RichTerm(Num(Fin(1)), PosOriginal("4-5")),
   RichTerm(App(RichTerm(Var("g"), PosOriginal("7-8")),
                RichTerm(Var("y"), PosOriginal("9-10"))), PosOriginal("6-11"))}

RECURSIVE Curried(_, _)
\* (..((f a1) a2) .. an), every application at the span of its two sides
Curried(f, args) ==
  IF args = << >> THEN f
  ELSE Curried(RichTerm(App(f, Head(args)),
                        TermPosFrom(Fuse(f.pos.span, Head(args).pos.span))),
               Tail(args))

\* the curried applications of f to 1..MaxApp arguments, and the encoding of
\* if-then-else
Applications ==
  UNION {{Curried(RichTerm(Var("f"), PosOriginal("0-1")), args).term :
            args \in [1..n -> AppOperands]} : n \in 1..MaxApp}
  \cup {MakeIfThenElse(cond, then_branch, else_branch).term :
          cond \in AppOperands, then_branch \in AppOperands, else_branch \in AppOperands}

\* the evaluator terms handed to the bridge
MainlineTerms ==
  {Op1(op, arg) : op \in UnaryOps, arg \in Operands}
  \cup Applications
  \cup {Op2(op, l, r) : op \in BinaryOps, l \in Operands, r \in Operands}
  \cup UNION {{OpN(op, args) : op \in NAryOps, args \in [1..n -> Operands]} :
              n \in 2..MaxArgs}

InitBridge ==
  /\ mainline \in {Some(term) : term \in MainlineTerms}
  /\ ast = None
  /\ back = None
  /\ pc = "parsed"
  /\ cache = << >>
  /\ nfresh = 0
  /\ t1 = None
  /\ env1 = EnvNew
  /\ t2 = None
  /\ env2 = EnvNew
  /\ pos_op = PosNone
  /\ mode = Standard
  /\ call_stack = << >>
  /\ result = None
  /\ forced = None
  /\ observed = None
  /\ chain = 0
  /\ cache0 = << >>
  /\ stack0 = << >>

\* term.to_ast(alloc)
ToAst ==
  /\ pc = "parsed"
  /\ \E debug \in BOOLEAN : ast' = Some(FromMainlineTerm(mainline[1], debug))
  /\ pc' = "lowered"
  /\ UNCHANGED <<cache, nfresh, t1, env1, t2, env2, pos_op, mode, call_stack, result,
                 forced, observed, chain, cache0, stack0, mainline, back>>

\* node.to_mainline(), of a node the conversion has returned
ToMainline ==
  /\ pc = "lowered"
  /\ ~ast[1].panicked
  /\ back' = Some(FromAstNode(ast[1].v))
  /\ pc' = "raised"
  /\ UNCHANGED <<cache, nfresh, t1, env1, t2, env2, pos_op, mode, call_stack, result,
                 forced, observed, chain, cache0, stack0, mainline, ast>>

NextBridge == ToAst \/ ToMainline

SpecBridge == InitBridge /\ [][NextBridge]_vars

TypeOK == pc \in {"ready", "merged", "forced", "evaluated", "parsed", "lowered", "raised"}

(***************************************************************************)
(* Vocabulary of the properties.                                            *)
(***************************************************************************)
Merged == pc = "merged" /\ result # None

MergedOk == Merged /\ result[1].tag = "Ok"

MergedErr == Merged /\ result[1].tag = "Err"

BothRecords == t1.term.tag = "Record" /\ t2.term.tag = "Record"

\* the record returned by the merge and its environment
ResFields == result[1].closure.body.term.fields

ResEnv == result[1].closure.env

\* the expression behind the value of a field: the value itself when it is
\* a constant, the original body of its cache entry when it is a variable
ExprOf(c, env, v) == IF v.tag = "Var" THEN c[env[v.id]].body ELSE v

\* the evaluated operand (t, env) is the record literal src
SameAs(t, env, src) ==
  /\ t.term.tag = "Record"
  /\ DOMAIN t.term.fields = DOMAIN src.fields
  /\ t.term.attrs = src.attrs
  /\ t.term.sealed_tail = src.sealed_tail
  /\ \A k \in DOMAIN src.fields :
       /\ t.term.fields[k].metadata = src.fields[k].metadata
       /\ (t.term.fields[k].value = None) = (src.fields[k].value = None)
       /\ t.term.fields[k].value # None =>
            ExprOf(cache0, env, t.term.fields[k].value[1]) = src.fields[k].value[1]

\* the term new (in the result) is the term old (in an operand) carried over:
\* the same constant, or a variable bound to a reverted copy of old's entry
CarriedTerm(new, old, env) ==
  IF old.tag = "Var"
  THEN /\ new.tag = "Var"
       /\ new.id \in DOMAIN ResEnv
       /\ ResEnv[new.id] > Len(cache0)
       /\ cache[ResEnv[new.id]] =
            Entry(cache0[env[old.id]].bt, cache0[env[old.id]].deps,
                  cache0[env[old.id]].body, cache0[env[old.id]].env)
  ELSE new = old

\* the field new of the result is the field old of an operand, carried over
CarriedField(new, old, env) ==
  /\ new.metadata = old.metadata
  /\ (new.value = None) = (old.value = None)
  /\ old.value # None => CarriedTerm(new.value[1], old.value[1], env)
  /\ Len(new.pending_contracts) = Len(old.pending_contracts)
  /\ \A i \in 1..Len(old.pending_contracts) :
       /\ new.pending_contracts[i].label = old.pending_contracts[i].label
       /\ CarriedTerm(new.pending_contracts[i].contract,
                      old.pending_contracts[i].contract, env)

\* what merge_fields gives for the two fields of a common key, whatever
\* the cache: metadata, presence of a value, number of pending contracts
CombinedField(new, f1, f2) ==
  \E m \in {merge_fields(MergeState(cache0, 0, EnvNew), f1, env1, f2, env2, << >>).out} :
     /\ new.metadata = m.metadata
     /\ (new.value = None) = (m.value = None)
     /\ Len(new.pending_contracts) = Len(f1.pending_contracts) + Len(f2.pending_contracts)

\* C1: a successful merge of two records returns a record whose keys are
\* the keys of r1 together with the keys of r2; a key of r1 alone carries
\* r1's field, a key of r2 alone carries r2's field, a common key carries the
\* combination of both by merge_fields; and split gives three pairwise
\* disjoint parts that cover the keys, center pairing (r1's, r2's) values.
C1_KeyPartition ==
  (MergedOk /\ BothRecords) =>
    LET f1 == t1.term.fields
        f2 == t2.term.fields
        parts == split(f1, f2)
    IN /\ DOMAIN ResFields = (DOMAIN f1) \cup (DOMAIN f2)
       /\ \A k \in LeftKeys : CarriedField(ResFields[k], f1[k], env1)
       /\ \A k \in RightKeys : CarriedField(ResFields[k], f2[k], env2)
       /\ \A k \in CenterKeys : CombinedField(ResFields[k], f1[k], f2[k])
       /\ DOMAIN parts.left = (DOMAIN f1) \ (DOMAIN f2)
       /\ DOMAIN parts.right = (DOMAIN f2) \ (DOMAIN f1)
       /\ DOMAIN parts.center = (DOMAIN f1) \cap (DOMAIN f2)
       /\ \A k \in DOMAIN parts.left : parts.left[k] = f1[k]
       /\ \A k \in DOMAIN parts.right : parts.right[k] = f2[k]
       /\ \A k \in DOMAIN parts.center : parts.center[k] = <<f1[k], f2[k]>>

\* a successful merge of two records whose split has three non-empty parts
C1_Witness ==
  /\ MergedOk /\ BothRecords
  /\ LeftKeys # {} /\ CenterKeys # {} /\ RightKeys # {}
  /\ \E k \in CenterKeys : t1.term.fields[k] # t2.term.fields[k]

\* the field of the result under key k takes its value and its priority from
\* the field f of the operand with environment env
TakenFrom(k, f, env) ==
  /\ ResFields[k].metadata.priority = f.metadata.priority
  /\ (ResFields[k].value = None) = (f.value = None)
  /\ f.value # None => CarriedTerm(ResFields[k].value[1], f.value[1], env)

\* C2 as stated: a common field whose two priorities differ takes the value
\* and the priority of the side with the higher priority.
C2_Original ==
  (MergedOk /\ BothRecords) =>
    \A k \in CenterKeys :
      LET f1 == t1.term.fields[k]
          f2 == t2.term.fields[k]
      IN /\ PriorityGt(f1.metadata.priority, f2.metadata.priority) => TakenFrom(k, f1, env1)
         /\ PriorityGt(f2.metadata.priority, f1.metadata.priority) => TakenFrom(k, f2, env2)

\* C2 amended: a common field whose two priorities differ and whose side of
\* higher priority defines a value takes the value and the priority of that
\* side, be it the left or the right operand.
C2_PriorityDominance ==
  (MergedOk /\ BothRecords) =>
    \A k \in CenterKeys :
      LET f1 == t1.term.fields[k]
          f2 == t2.term.fields[k]
      IN /\ (PriorityGt(f1.metadata.priority, f2.metadata.priority) /\ f1.value # None)
              => TakenFrom(k, f1, env1)
         /\ (PriorityGt(f2.metadata.priority, f1.metadata.priority) /\ f2.value # None)
              => TakenFrom(k, f2, env2)

\* a merge in which the right operand has the higher priority and both
\* sides define a value, the two values being different
C2_Witness ==
  /\ MergedOk /\ BothRecords
  /\ \E k \in CenterKeys :
       /\ PriorityGt(t2.term.fields[k].metadata.priority, t1.term.fields[k].metadata.priority)
       /\ t1.term.fields[k].value # None
       /\ t2.term.fields[k].value # None
       /\ t1.term.fields[k].value # t2.term.fields[k].value
       /\ TakenFrom(k, t2.term.fields[k], env2)

\* what the evaluation of a field gave: its value, or the error
Outcome1(res) == IF res.tag = "Ok" THEN [tag |-> "Ok", v |-> res.closure.body] ELSE res

Value(n) == [tag |-> "Ok", v |-> Lit(n)]

\* rec = { a = 1, b = a + 1 }, ovr = { a = 10 }, and rec with a default a
RecC3 ==
  SrcRecord(Rec3(Some(Plain(Some(Lit(1)), Neutral(0))),
                 Some(Plain(Some(Plus("a", 1)), Neutral(0))), None), FALSE, None)

RecDefaultC3 ==
  SrcRecord(Rec3(Some(Plain(Some(Lit(1)), Bottom)),
                 Some(Plain(Some(Plus("a", 1)), Neutral(0))), None), FALSE, None)

OvrC3 == SrcRecord(Rec3(Some(Plain(Some(Lit(10)), Neutral(0))), None, None), FALSE, None)

\* the first merge was rec & ovr in Standard mode and its result is evaluated
EvaluatedMergeOf(rec, ovr) ==
  /\ pc = "evaluated" /\ chain = 0 /\ mode = Standard
  /\ SameAs(t1, env1, rec) /\ SameAs(t2, env2, ovr)

\* C3 as stated: field b of { a = 1, b = a + 1 } & { a = 10 } evaluates to 11.
C3_Original == EvaluatedMergeOf(RecC3, OvrC3) => Outcome1(observed[1]["b"]) = Value(11)

\* C3 amended: field b of { a | default = 1, b = a + 1 } & { a = 10 }
\* evaluates to 11: b is evaluated against the a of the merged record.
C3_OverrideVisibility ==
  EvaluatedMergeOf(RecDefaultC3, OvrC3) => Outcome1(observed[1]["b"]) = Value(11)

\* the merge of the amended C3 has been evaluated and a is 10, b is 11
C3_Witness ==
  /\ EvaluatedMergeOf(RecDefaultC3, OvrC3)
  /\ Outcome1(observed[1]["a"]) = Value(10)
  /\ Outcome1(observed[1]["b"]) = Value(11)

(***************************************************************************)
(* The value a field of a forced record has when every sibling it reads,    *)
(* directly or through the thunks it is made of, is the field of that name  *)
(* of the same record.  The environments built by the fixpoint play no part *)
(* in it: only the original bodies of the cache entries are read.           *)
(***************************************************************************)
RECURSIVE AgainstRecord(_, _, _, _)
AgainstRecord(c, rec, t, env) ==
  LET fields == rec.body.term.fields
      merged(m) ==
        IF m.res.tag = "Ok" THEN Ok(AtomicClosure(m.res.closure.body.term)) ELSE m.res
      op2(l, r) ==
        IF r.tag = "Err" THEN r
        ELSE IF t.op = "Plus"
        THEN IF l.closure.body.tag = "Num" /\ r.closure.body.tag = "Num"
             THEN Ok(AtomicClosure(Num(FAdd(l.closure.body.x, r.closure.body.x))))
             ELSE Err(TypeError)
        ELSE merged(merge(c, 0, RichTerm(l.closure.body, PosNone), l.closure.env,
                          RichTerm(r.closure.body, PosNone), r.closure.env,
                          PosNone, Standard, << >>, << >>, << >>, << >>))
      snd(l) == IF l.tag = "Err" THEN l ELSE op2(l, AgainstRecord(c, rec, t.r, env))
      app(f) ==
        IF f.tag = "Err" THEN f
        ELSE IF f.closure.body.tag # "Fun" THEN Err(TypeError)
        ELSE AgainstRecord(c, rec, f.closure.body.body, f.closure.env)
  IN IF t.tag = "Var"
     THEN IF t.id \in DOMAIN fields
          THEN IF fields[t.id].value = None THEN Err(MissingFieldDef(t.id))
               ELSE AgainstRecord(c, rec, fields[t.id].value[1], rec.env)
          ELSE IF EnvGet(env, t.id) = None THEN Err(UnboundIdentifier(t.id))
          ELSE AgainstRecord(c, rec, c[env[t.id]].body, c[env[t.id]].env)
     ELSE IF t.tag = "Op2" THEN snd(AgainstRecord(c, rec, t.l, env))
     ELSE IF t.tag = "App" THEN app(AgainstRecord(c, rec, t.f, env))
     ELSE IF t.tag = "RuntimeError" THEN Err(t.error)
     ELSE Ok(Closure(t, env))

\* the expression of field k of the forced record reads a sibling
RECURSIVE ReadsSibling(_, _, _, _)
ReadsSibling(c, rec, t, env) ==
  IF t.tag = "Var"
  THEN \/ t.id \in DOMAIN rec.body.term.fields
       \/ /\ EnvGet(env, t.id) # None
          /\ ReadsSibling(c, rec, c[env[t.id]].body, c[env[t.id]].env)
  ELSE IF t.tag = "Op2"
  THEN ReadsSibling(c, rec, t.l, env) \/ ReadsSibling(c, rec, t.r, env)
  ELSE IF t.tag = "App"
  THEN ReadsSibling(c, rec, t.f, env) \/ ReadsSibling(c, rec, t.arg, env)
  ELSE IF t.tag = "Fun"
  THEN ReadsSibling(c, rec, t.body, env)
  ELSE FALSE

FieldReadsSibling(k) ==
  LET f == forced[1].closure.body.term.fields[k]
  IN f.value # None /\ ReadsSibling(cache, forced[1].closure, f.value[1], forced[1].closure.env)

\* C4: after any sequence of Standard-mode merges, the evaluation of a field
\* that reads siblings (directly, or through a thunk made by merging two
\* values) gives what its expression gives against the fields of the final
\* merged record.
C4_OverridePropagation ==
  (pc = "evaluated" /\ mode = Standard) =>
    \A k \in DOMAIN observed[1] :
      FieldReadsSibling(k) =>
        Outcome1(observed[1][k]) =
          Outcome1(AgainstRecord(cache, forced[1].closure, Var(k), forced[1].closure.env))

\* after two merges, a field made by merging two values, one of which reads
\* the sibling a, has a value, and a was overridden by the last merge
C4_Witness ==
  /\ pc = "evaluated" /\ mode = Standard /\ chain = 1
  /\ "a" \in DOMAIN t2.term.fields
  /\ \E k \in DOMAIN observed[1] :
       /\ FieldReadsSibling(k)
       /\ cache[forced[1].rec_env[k]].body.tag = "Op2"
       /\ cache[forced[1].rec_env[k]].body.op = "Merge"
       /\ observed[1][k].tag = "Ok"

\* the operand is a record that carries a sealed tail
Sealed(t) == t.term.tag = "Record" /\ t.term.sealed_tail # None

\* the merge failed with IllegalPolymorphicTailAccess, action Merge, label
IllegalTailAccess(label) ==
  /\ MergedErr
  /\ result[1].error.kind = "IllegalPolymorphicTailAccess"
  /\ result[1].error.action = "Merge"
  /\ result[1].error.label = label

\* C5 as stated: a merge in which at least one operand is a record with a
\* sealed tail fails with IllegalPolymorphicTailAccess, action Merge, the
\* label being the label of a tail, whatever the other operand and the mode.
C5_Original ==
  (Merged /\ (Sealed(t1) \/ Sealed(t2))) =>
    \/ Sealed(t1) /\ IllegalTailAccess(t1.term.sealed_tail[1].label)
    \/ Sealed(t2) /\ IllegalTailAccess(t2.term.sealed_tail[1].label)

\* C5 amended: a merge of two records of which at least one carries a
\* sealed tail fails with IllegalPolymorphicTailAccess, action Merge,
\* whatever the mode; the label is the label of the tail of the left record
\* when it has one, of the right record otherwise.
C5_SealedTailRejection ==
  (Merged /\ BothRecords /\ (Sealed(t1) \/ Sealed(t2))) =>
    IF Sealed(t1) THEN IllegalTailAccess(t1.term.sealed_tail[1].label)
    ELSE IllegalTailAccess(t2.term.sealed_tail[1].label)

\* a merge in Contract mode of an unsealed record with a sealed one
C5_Witness ==
  /\ Merged /\ BothRecords /\ ~Sealed(t1) /\ Sealed(t2)
  /\ mode.kind = "Contract"
  /\ IllegalTailAccess(Label("tail2"))

\* the merge checks the record t1 against the record contract t2, neither
\* of them having a sealed tail
ContractCheck ==
  /\ Merged /\ mode.kind = "Contract" /\ BothRecords
  /\ ~Sealed(t1) /\ ~Sealed(t2)

\* the back-quoted keys, separated by commas, as pieces of text
RECURSIVE QuotedList(_)
QuotedList(keys) ==
  IF Len(keys) = 1 THEN <<BackQuote, keys[1], BackQuote>>
  ELSE <<BackQuote, keys[1], BackQuote, ",">> \o QuotedList(Tail(keys))

\* the text "extra field `k`" or "extra fields `k1`,`k2`..."
ExtraFieldMessage(keys) ==
  <<(IF Len(keys) = 1 THEN "extra field " ELSE "extra fields ")>> \o QuotedList(keys)

\* C6: in Contract mode, a record with at least one key that the closed
\* record contract lacks is blamed: the label of the error is the label of
\* the mode with the message "extra field(s) " followed by exactly the
\* back-quoted extra keys, joined by commas in some order, and with exactly
\* the two notes.
C6_ExtraFieldRejection ==
  (ContractCheck /\ ~t2.term.attrs.open /\ LeftKeys # {}) =>
    /\ MergedErr
    /\ result[1].error.kind = "BlameError"
    /\ \E keys \in Orders(LeftKeys) :
         result[1].error.label =
           [mode.label EXCEPT !.message = Some(ExtraFieldMessage(keys)),
                              !.notes = <<NoteMisspelled, NoteTooStrict>>]

\* blame for one extra field, and blame for two of them
C6_Witness ==
  /\ ContractCheck /\ ~t2.term.attrs.open
  /\ Cardinality(LeftKeys) = 2
  /\ MergedErr
  /\ result[1].error.kind = "BlameError"
  /\ result[1].error.label.message[1][1] = "extra fields "
  /\ Len(result[1].error.label.notes) = 2

\* C7: in Contract mode, a record checked against an open record contract
\* is never blamed for extra fields: the merge succeeds and every field of
\* the record that the contract lacks is in the result.
C7_OpenAcceptance ==
  (ContractCheck /\ t2.term.attrs.open) =>
    /\ MergedOk
    /\ \A k \in LeftKeys :
         /\ k \in DOMAIN ResFields
         /\ CarriedField(ResFields[k], t1.term.fields[k], env1)

\* an open contract accepted a record with two fields it does not list
C7_Witness ==
  /\ ContractCheck /\ t2.term.attrs.open
  /\ Cardinality(LeftKeys) >= 2 /\ RightKeys # {}
  /\ MergedOk
  /\ LeftKeys \subseteq DOMAIN ResFields

\* the value { x = 1 } and the closed contract { x | Num, y | Num }
ValueC8 == SrcRecord(Single("x", ValueField(1)), FALSE, None)

ContractC8 == SrcRecord([k \in {"x", "y"} |-> ContractField(k)], FALSE, None)

CheckC8 ==
  /\ Merged /\ mode.kind = "Contract"
  /\ SameAs(t1, env1, ValueC8) /\ SameAs(t2, env2, ContractC8)

\* C8 as stated: { x = 1 } against the closed contract { x | Num, y | Num }
\* fails with a blame error that reports the extra field `y`.
C8_Original ==
  CheckC8 =>
    /\ MergedErr
    /\ result[1].error.kind = "BlameError"
    /\ result[1].error.label.message = Some(ExtraFieldMessage(<<"y">>))

\* C8 amended: { x = 1 } against the closed contract { x | Num, y | Num }
\* is not blamed: the merge succeeds with the fields x and y, x with the
\* value of the record and y without a value, each with the contract of
\* the record contract.
C8_MissingFieldAccepted ==
  CheckC8 =>
    /\ MergedOk
    /\ DOMAIN ResFields = {"x", "y"}
    /\ ResFields["x"].value = Some(Lit(1))
    /\ ResFields["y"].value = None
    /\ \A k \in {"x", "y"} :
         /\ Len(ResFields[k].pending_contracts) = 1
         /\ ResFields[k].pending_contracts[1].label = Label(k)

\* the merge of C8 succeeded and the field y has no value
C8_Witness ==
  /\ CheckC8 /\ MergedOk
  /\ "y" \in DOMAIN ResFields
  /\ ResFields["y"].value = None

\* the types and contracts of an annotation, as a set
Annotations(annotation) ==
  {annotation.types[i] : i \in 1..Len(annotation.types)}
  \cup {annotation.contracts[i] : i \in 1..Len(annotation.contracts)}

\* two fields with the same priority, flags, documentation, contracts
SameMetadata(f, g) ==
  /\ f.metadata.priority = g.metadata.priority
  /\ f.metadata.opt = g.metadata.opt
  /\ f.metadata.not_exported = g.metadata.not_exported
  /\ f.metadata.doc = g.metadata.doc
  /\ Annotations(f.metadata.annotation) = Annotations(g.metadata.annotation)
  /\ {f.pending_contracts[i].label : i \in 1..Len(f.pending_contracts)}
       = {g.pending_contracts[i].label : i \in 1..Len(g.pending_contracts)}

\* two evaluations with the same value, or both failed
SameOutcome(res1, res2) ==
  /\ res1.tag = res2.tag
  /\ res1.tag = "Ok" => res1.closure.body = res2.closure.body

\* the record (forced, with the evaluation of its fields) has the fields of
\* the forced and evaluated record of the state, up to their order
SameRecord(rec, evaluated) ==
  /\ DOMAIN rec.body.term.fields = DOMAIN forced[1].closure.body.term.fields
  /\ \A k \in DOMAIN rec.body.term.fields :
       /\ SameMetadata(rec.body.term.fields[k], forced[1].closure.body.term.fields[k])
       /\ (rec.body.term.fields[k].value = None)
            = (forced[1].closure.body.term.fields[k].value = None)
       /\ SameOutcome(evaluated[k], observed[1][k])

\* C9: in Standard mode the merge of two records without sealed tails and
\* the merge of the same records the other way round succeed together and
\* give records with the same keys and, for every key, the same evaluated
\* value, priority, optional flag, not-exported flag, documentation and set
\* of contracts (the declared type counted with them).
C9_Original ==
  (pc = "evaluated" /\ chain = 0 /\ mode = Standard /\ ~Sealed(t1) /\ ~Sealed(t2)) =>
    \E o \in {merge(cache0, nfresh, t2, env2, t1, env1, pos_op, mode, stack0,
                     CHOOSE x \in Orders(RightKeys) : TRUE,
                     CHOOSE x \in Orders(CenterKeys) : TRUE,
                     CHOOSE x \in Orders(LeftKeys) : TRUE)} :
      /\ o.res.tag = "Ok"
      /\ \E f \in {Force(o.cache, o.res.closure)} :
         \E e \in {EvalAll(f.cache, Sorted(DOMAIN f.rec_env), f.rec_env, MapEmpty)} :
           SameRecord(f.closure, e.out)

\* merge handles the term as a value
IsAtom(t) == t.tag \in {"Null", "Bool", "Num", "Str", "Lbl", "Enum", "Array"}

\* the same value; the attributes of an array are not part of its value
SameValue(t, u) ==
  IF t.tag = "Array" /\ u.tag = "Array" THEN t.elems = u.elems ELSE t = u

\* C10: the merge of a value (Null, Bool, Num, Str, Lbl, Enum, Array) with
\* itself succeeds and returns that value.
C10_Original ==
  (Merged /\ IsAtom(t1.term) /\ t1.term = t2.term) =>
    /\ MergedOk
    /\ SameValue(result[1].closure.body.term, t1.term)

\* the two operands are evaluations of the same record literal: the same
\* keys and, field by field, the same metadata, the same expression as
\* value, the same pending contracts
SameOperands ==
  /\ BothRecords
  /\ DOMAIN t1.term.fields = DOMAIN t2.term.fields
  /\ t1.term.attrs = t2.term.attrs
  /\ \A k \in DOMAIN t1.term.fields :
       \E f1 \in {t1.term.fields[k]} : \E f2 \in {t2.term.fields[k]} :
         /\ f1.metadata = f2.metadata
         /\ (f1.value = None) = (f2.value = None)
         /\ f1.value # None =>
              ExprOf(cache0, env1, f1.value[1]) = ExprOf(cache0, env2, f2.value[1])
         /\ Len(f1.pending_contracts) = Len(f2.pending_contracts)
         /\ \A i \in 1..Len(f1.pending_contracts) :
              /\ f1.pending_contracts[i].label = f2.pending_contracts[i].label
              /\ ExprOf(cache0, env1, f1.pending_contracts[i].contract)
                   = ExprOf(cache0, env2, f2.pending_contracts[i].contract)

\* the labels of a list of pending contracts, in their order
Labels(pending_contracts) ==
  [i \in 1..Len(pending_contracts) |-> pending_contracts[i].label]

\* a record r without sealed tail has been merged with itself, Standard mode
SelfMerge == MergedOk /\ mode = Standard /\ SameOperands /\ ~Sealed(t1)

EqualValues(t, u) ==
  IF t.tag = "Num" /\ u.tag = "Num"
  THEN t.x.cls # "nan" /\ u.x.cls # "nan" /\ t.x = u.x
  ELSE t = u

\* the merge failed with MergeIncompatibleArgs carrying the left operand
\* with pos1, the right operand with pos2, and pos_op
IncompatibleArgs ==
  /\ MergedErr
  /\ result[1].error = [kind |-> "MergeIncompatibleArgs", t1 |-> t1, t2 |-> t2,
                        pos_op |-> pos_op]

\* the merge returned the value t
Returned(t) == MergedOk /\ SameValue(result[1].closure.body.term, t)

\* C12: two values of the same variant among Null, Bool, Num, Str, Lbl,
\* Enum merge to the common value if and only if they are equal, two arrays
\* merge if and only if both are empty, two values of different variants do
\* not merge; every failure is MergeIncompatibleArgs with the left operand
\* and pos1, the right operand and pos2, and pos_op.
C12_Original ==
  (Merged /\ IsAtom(t1.term) /\ IsAtom(t2.term)) =>
    IF t1.term.tag = "Array" /\ t2.term.tag = "Array"
    THEN IF t1.term.elems = << >> /\ t2.term.elems = << >>
         THEN Returned(t1.term)
         ELSE IncompatibleArgs
    ELSE IF t1.term.tag = t2.term.tag /\ EqualValues(t1.term, t2.term)
         THEN Returned(t1.term)
         ELSE IncompatibleArgs

\* the merge failed with a BlameError that carries the label
Blamed(label) ==
  /\ MergedErr
  /\ result[1].error.kind = "BlameError"
  /\ result[1].error.label = label

\* C13: a value that is not a record, merged with a record, is blamed with
\* the label of the mode in Contract mode and gives MergeIncompatibleArgs
\* in Standard mode; a record merged with a value that is not a record
\* gives MergeIncompatibleArgs in Contract mode.
C13_ContractNonRecord ==
  /\ (Merged /\ t1.term.tag # "Record" /\ t2.term.tag = "Record") =>
       IF mode.kind = "Contract" THEN Blamed(mode.label) ELSE IncompatibleArgs
  /\ (Merged /\ mode.kind = "Contract" /\ t1.term.tag = "Record"
        /\ t2.term.tag # "Record") => IncompatibleArgs

\* a number checked against a record contract has been blamed
C13_Witness ==
  /\ Merged /\ mode.kind = "Contract"
  /\ t1.term.tag = "Num" /\ t2.term.tag = "Record"
  /\ Blamed(LabelC)

\* the two fields of the common key k have a value each and the same
\* priority, and the value of the left one is a variable env1 does not bind
UnboundInField(k) ==
  /\ t1.term.fields[k].value # None
  /\ t2.term.fields[k].value # None
  /\ t1.term.fields[k].metadata.priority = t2.term.fields[k].metadata.priority
  /\ t1.term.fields[k].value[1].tag = "Var"
  /\ t1.term.fields[k].value[1].id \notin DOMAIN env1

\* C14: when the saturation of the value of a common field (two values,
\* equal priorities) meets a variable that its environment does not bind,
\* merge returns Err(UnboundIdentifier(id)) to its caller.
C14_Original ==
  (Merged /\ BothRecords /\ ~Sealed(t1) /\ ~Sealed(t2)) =>
    \A k \in CenterKeys :
      UnboundInField(k) =>
        /\ MergedErr
        /\ result[1].error = UnboundIdentifier(t1.term.fields[k].value[1].id)

\* the position pos, inherited
Inherited(pos) == [kind |-> "Inherited", span |-> pos.span]

\* C15: a successful merge of two records returns a term at pos_op,
\* inherited, in Standard mode and at pos1, inherited, in Contract mode; a
\* successful merge of two values that are not records returns a term at
\* pos_op, inherited.
C15_ResultPosition ==
  MergedOk =>
    result[1].closure.body.pos =
      (IF BothRecords /\ mode.kind = "Contract" THEN Inherited(t1.pos)
       ELSE Inherited(pos_op))

\* a record checked against a record contract: the result is at pos1
C15_Witness ==
  /\ MergedOk /\ BothRecords /\ mode.kind = "Contract"
  /\ t1.pos # pos_op
  /\ result[1].closure.body.pos = Inherited(t1.pos)

\* C16: a successful merge of two records returns a recursive record
\* without sealed tail that is open exactly when one of the operands is;
\* two empty closed records give an empty closed record.
C16_ResultAttributes ==
  (MergedOk /\ BothRecords) =>
    /\ result[1].closure.body.term.tag = "RecRecord"
    /\ result[1].closure.body.term.sealed_tail = None
    /\ result[1].closure.body.term.attrs.open
         = (t1.term.attrs.open \/ t2.term.attrs.open)
    /\ (DOMAIN t1.term.fields = {} /\ DOMAIN t2.term.fields = {}) =>
         DOMAIN ResFields = {}

\* two empty closed records have been merged in Standard mode
C16_Witness ==
  /\ MergedOk /\ BothRecords /\ mode = Standard
  /\ DOMAIN t1.term.fields = {} /\ DOMAIN t2.term.fields = {}
  /\ ~t1.term.attrs.open /\ ~t2.term.attrs.open
  /\ DOMAIN ResFields = {}
  /\ ~result[1].closure.body.term.attrs.open

(***************************************************************************)
(* The arguments of the primitive operations made by the bridge.            *)
(***************************************************************************)
\* the conversion of the i-th operand of the term handed to the bridge
Operand(i) ==
  IF mainline[1].tag = "Op2"
  THEN FromMainlineRichTerm(IF i = 1 THEN mainline[1].l ELSE mainline[1].r, TRUE).v
  ELSE FromMainlineRichTerm(mainline[1].args[i], TRUE).v

\* the bridge returned an application of the primitive operation `prim`
LoweredTo(prim) ==
  /\ pc = "lowered"
  /\ ~ast[1].panicked
  /\ ast[1].v.variant = "PrimOpApp"
  /\ ast[1].v.op.prim = prim

\* the number of operands of the term handed to the bridge
Arity == IF mainline[1].tag = "Op2" THEN 2 ELSE Len(mainline[1].args)

\* C17: the bridge turns the binary ArrayAt and StringContains applied to
\* (a, b) into a primitive application with the arguments (b, a), the n-ary
\* StringSubstr applied to (string, start, end) into one with the arguments
\* (start, end, string), and every other binary or n-ary operator it converts
\* into one with the arguments in their original order and count.
C17_OperandOrder ==
  (pc = "lowered" /\ mainline[1].tag \in {"Op2", "OpN"} /\ ~ast[1].panicked) =>
     /\ ast[1].v.variant = "PrimOpApp"
     /\ ast[1].v.op.prim = mainline[1].op.name
     /\ IF mainline[1].tag = "Op2" /\ mainline[1].op.name \in {"ArrayAt", "StringContains"}
        THEN ast[1].v.args = <<Operand(2), Operand(1)>>
        ELSE IF mainline[1].tag = "OpN" /\ mainline[1].op.name = "StringSubstr" /\ Arity = 3
        THEN ast[1].v.args = <<Operand(2), Operand(3), Operand(1)>>
        ELSE IF mainline[1].tag = "OpN" /\ mainline[1].op.name = "StringSubstr"
        THEN Len(ast[1].v.args) = Arity
        ELSE ast[1].v.args = [i \in 1..Arity |-> Operand(i)]

\* a substring whose three operands differ has been converted
C17_Witness ==
  /\ LoweredTo("StringSubstr")
  /\ Arity = 3
  /\ Operand(1) # Operand(2)
  /\ Operand(2) # Operand(3)
  /\ Operand(1) # Operand(3)

\* the bridge refuses the operators that the evaluator alone introduces:
\* the conversion panics exactly on Seal, Unseal and on a RecordInsert that
\* carries metadata, pending contracts or no value, and, when the operator
\* is accepted, on a StringSubstr that has not three operands
BridgePanics ==
  (pc = "lowered" /\ mainline[1].tag = "Op2" /\ Arity = 2) =>
     (ast[1].panicked <=>
        \/ mainline[1].op.name \in {"Seal", "Unseal"}
        \/ /\ mainline[1].op.name = "RecordInsert"
           /\ ~(/\ mainline[1].op.metadata_empty
                /\ mainline[1].op.pending_contracts_empty
                /\ mainline[1].op.ext_kind = "WithValue"))

(***************************************************************************)
(* The value and the priority of a merged common field.                     *)
(***************************************************************************)
\* the head of the applications (...((head x1) x2) ... xk)
RECURSIVE AppHead(_)
AppHead(t) == IF t.tag = "App" THEN AppHead(t.f) ELSE t

\* the body of the functions fun x1 => ... fun xk => body
RECURSIVE FunBody(_)
FunBody(t) == IF t.tag = "Fun" THEN FunBody(t.body) ELSE t

\* the expression an operand of a merged thunk stands for: the operand when
\* it is a constant; else the body of the entry of its variable, which for
\* a saturated revertible entry is a function of its dependencies, applied
\* to them
OperandExpr(c, env, v) ==
  IF AppHead(v).tag = "Var" THEN FunBody(c[env[AppHead(v).id]].body) ELSE v

\* the field of the result under key k holds a variable that the returned
\* environment binds to a new, not yet evaluated cache entry whose body is
\* Merge(v1, v2), v1 standing for the expression of f1 and v2 for that of f2
MergedThunk(k, f1, f2) ==
  /\ ResFields[k].value # None
  /\ ResFields[k].value[1].tag = "Var"
  /\ ResFields[k].value[1].id \in DOMAIN ResEnv
  /\ \E e \in {cache[ResEnv[ResFields[k].value[1].id]]} :
       /\ ResEnv[ResFields[k].value[1].id] > Len(cache0)
       /\ e.value = None
       /\ e.body.tag = "Op2"
       /\ e.body.op = "Merge"
       /\ OperandExpr(cache, e.env, e.body.l) = ExprOf(cache0, env1, f1.value[1])
       /\ OperandExpr(cache, e.env, e.body.r) = ExprOf(cache0, env2, f2.value[1])

\* C18: merge_fields selects the value and the priority of a common field
\* by this table: both values present and equal priorities, a variable bound
\* to a lazily evaluated Merge(t1, t2) thunk with the priority p1; t1 present
\* and p1 > p2, t1 with p1; t2 present and p2 > p1, t2 with p2; only t1
\* present, t1 with p1, and only t2 present, t2 with p2, whatever the
\* priority of the side without a value; neither present, no value and the
\* default priority.
C18_SelectionTable ==
  (MergedOk /\ BothRecords) =>
    \A k \in CenterKeys :
      \E f1 \in {t1.term.fields[k]}, f2 \in {t2.term.fields[k]} :
        \E p1 \in {f1.metadata.priority}, p2 \in {f2.metadata.priority} :
           /\ (f1.value # None /\ f2.value # None /\ p1 = p2) =>
                 (MergedThunk(k, f1, f2) /\ ResFields[k].metadata.priority = p1)
           /\ (f1.value # None /\ PriorityGt(p1, p2)) => TakenFrom(k, f1, env1)
           /\ (f2.value # None /\ PriorityGt(p2, p1)) => TakenFrom(k, f2, env2)
           /\ (f1.value # None /\ f2.value = None) => TakenFrom(k, f1, env1)
           /\ (f1.value = None /\ f2.value # None) => TakenFrom(k, f2, env2)
           /\ (f1.value = None /\ f2.value = None) =>
                 /\ ResFields[k].value = None
                 /\ ResFields[k].metadata.priority = PriorityDefault

\* a merge in which only the right field has a value and the left field,
\* without a value, has the strictly higher priority
C18_Witness ==
  /\ MergedOk /\ BothRecords
  /\ \E k \in CenterKeys :
       /\ t1.term.fields[k].value = None
       /\ t2.term.fields[k].value # None
       /\ PriorityGt(t1.term.fields[k].metadata.priority, t2.term.fields[k].metadata.priority)
       /\ ResFields[k].metadata.priority = t2.term.fields[k].metadata.priority
       /\ ResFields[k].value # None

(***************************************************************************)
(* The pending contracts of a merged common field.                          *)
(***************************************************************************)
\* the pending contract new of the result is the pending contract old of an
\* operand with environment env, reverted
CarriedContract(new, old, env) ==
  /\ new.label = old.label
  /\ CarriedTerm(new.contract, old.contract, env)

\* C19: the pending contracts of a merged common field are those of the
\* first field, in their order, followed by those of the second field, in
\* their order, none dropped and none merged with an equal one, whichever
\* side gave the value.
C19_PendingContracts ==
  (MergedOk /\ BothRecords) =>
    \A k \in CenterKeys :
      \E pc1 \in {t1.term.fields[k].pending_contracts},
         pc2 \in {t2.term.fields[k].pending_contracts},
         merged \in {ResFields[k].pending_contracts} :
           /\ Len(merged) = Len(pc1) + Len(pc2)
           /\ \A i \in 1..Len(pc1) : CarriedContract(merged[i], pc1[i], env1)
           /\ \A i \in 1..Len(pc2) : CarriedContract(merged[Len(pc1) + i], pc2[i], env2)

\* a merge in which the value of the right field is selected by its higher
\* priority, both fields have pending contracts, those of the left field
\* come in another order on the right, and the result has all four
C19_Witness ==
  /\ MergedOk /\ BothRecords
  /\ \E k \in CenterKeys :
       /\ PriorityGt(t2.term.fields[k].metadata.priority, t1.term.fields[k].metadata.priority)
       /\ t1.term.fields[k].value # None
       /\ t2.term.fields[k].value # None
       /\ Len(t1.term.fields[k].pending_contracts) = 2
       /\ Len(t2.term.fields[k].pending_contracts) = 2
       /\ t1.term.fields[k].pending_contracts[1].label = t2.term.fields[k].pending_contracts[2].label
       /\ t1.term.fields[k].pending_contracts[1].label # t1.term.fields[k].pending_contracts[2].label
       /\ Len(ResFields[k].pending_contracts) = 4

(***************************************************************************)
(* The annotation of a merged common field.                                 *)
(***************************************************************************)
\* the number of labeled types of an annotation: its declared type, if any,
\* and its contracts
LabeledTypes(annotation) == Len(annotation.types) + Len(annotation.contracts)

\* C20: the annotation of a merged common field has the declared type of
\* the first annotation if there is one, else that of the second; when both
\* declare a type, the second type becomes a contract placed after the
\* contracts of the first annotation and before those of the second; so the
\* result has as many labeled types as the two annotations together.
C20_AnnotationCombination ==
  (MergedOk /\ BothRecords) =>
    \A k \in CenterKeys :
      \E ann1 \in {t1.term.fields[k].metadata.annotation},
         ann2 \in {t2.term.fields[k].metadata.annotation},
         ann \in {ResFields[k].metadata.annotation} :
           /\ ann.types = (IF ann1.types # None THEN ann1.types ELSE ann2.types)
           /\ ann.contracts =
                ann1.contracts
                  \o (IF ann1.types # None /\ ann2.types # None THEN ann2.types ELSE << >>)
                  \o ann2.contracts
           /\ LabeledTypes(ann) = LabeledTypes(ann1) + LabeledTypes(ann2)

\* a merge of two fields that declare different types and have a contract
\* each: the result has the first type and three contracts
C20_Witness ==
  /\ MergedOk /\ BothRecords
  /\ \E k \in CenterKeys :
       /\ t1.term.fields[k].metadata.annotation.types # None
       /\ t2.term.fields[k].metadata.annotation.types # None
       /\ t1.term.fields[k].metadata.annotation.types # t2.term.fields[k].metadata.annotation.types
       /\ t1.term.fields[k].metadata.annotation.contracts # << >>
       /\ t2.term.fields[k].metadata.annotation.contracts # << >>
       /\ ResFields[k].metadata.annotation.types = t1.term.fields[k].metadata.annotation.types
       /\ Len(ResFields[k].metadata.annotation.contracts) = 3

(***************************************************************************)
(* The metadata of a merged common field.                                   *)
(***************************************************************************)
\* C21: a merged common field is optional exactly when both fields are, is
\* not exported when either field is not, and has the documentation of the
\* first field if it has one, else that of the second, whichever side gave
\* the value.
C21_MetadataCombination ==
  (MergedOk /\ BothRecords) =>
    \A k \in CenterKeys :
      \E m1 \in {t1.term.fields[k].metadata}, m2 \in {t2.term.fields[k].metadata},
         m \in {ResFields[k].metadata} :
           /\ m.opt = (m1.opt /\ m2.opt)
           /\ m.not_exported = (m1.not_exported \/ m2.not_exported)
           /\ m.doc = (IF m1.doc # None THEN m1.doc ELSE m2.doc)

\* a merge of two fields with different documentations in which the value
\* of the right field is selected by its higher priority: the result keeps
\* the documentation of the left field
C21_Witness ==
  /\ MergedOk /\ BothRecords
  /\ \E k \in CenterKeys :
       /\ t1.term.fields[k].metadata.doc # None
       /\ t2.term.fields[k].metadata.doc # None
       /\ t1.term.fields[k].metadata.doc # t2.term.fields[k].metadata.doc
       /\ t1.term.fields[k].value # None
       /\ t2.term.fields[k].value # None
       /\ PriorityGt(t2.term.fields[k].metadata.priority, t1.term.fields[k].metadata.priority)
       /\ ResFields[k].metadata.doc = t1.term.fields[k].metadata.doc
       /\ ResFields[k].metadata.priority = t2.term.fields[k].metadata.priority

(***************************************************************************)
(* The cache element of a merged field.                                     *)
(***************************************************************************)
\* the value v of an operand with environment env is a variable bound to a
\* revertible element of the cache on entry
RevertibleValue(v, env) == v.tag = "Var" /\ cache0[env[v.id]].bt = "Revertible"

\* the dependencies field_deps gives for the value v of an operand
DepsOfValue(v, env) == IF RevertibleValue(v, env) THEN cache0[env[v.id]].deps ELSE {}

\* the common key k has a value of the same priority on both sides
EqualPriorityMerge(k) ==
  /\ t1.term.fields[k].value # None
  /\ t2.term.fields[k].value # None
  /\ t1.term.fields[k].metadata.priority = t2.term.fields[k].metadata.priority

\* C22: the cache element allocated for a merged field of equal priorities
\* is revertible exactly when one of the two original elements is; its
\* dependencies are then the union of those of the two originals, a constant
\* and a standard element counting for none; with an empty union the
\* element is a standard one.
C22_MergedElement ==
  (MergedOk /\ BothRecords) =>
    \A k \in CenterKeys :
      EqualPriorityMerge(k) =>
        \E v1 \in {t1.term.fields[k].value[1]}, v2 \in {t2.term.fields[k].value[1]},
           e \in {cache[ResEnv[ResFields[k].value[1].id]]} :
             /\ (e.bt = "Revertible") <=> (RevertibleValue(v1, env1) \/ RevertibleValue(v2, env2))
             /\ e.bt = "Revertible" => e.deps = DepsOfValue(v1, env1) \cup DepsOfValue(v2, env2)
             /\ (DepsOfValue(v1, env1) \cup DepsOfValue(v2, env2) = {}) => e.bt = "Standard"

\* a merged field whose two originals are revertible, the second depending
\* on a field the first does not depend on
C22_Witness ==
  /\ MergedOk /\ BothRecords
  /\ \E k \in CenterKeys :
       /\ EqualPriorityMerge(k)
       /\ RevertibleValue(t1.term.fields[k].value[1], env1)
       /\ RevertibleValue(t2.term.fields[k].value[1], env2)
       /\ ~(DepsOfValue(t2.term.fields[k].value[1], env2)
              \subseteq DepsOfValue(t1.term.fields[k].value[1], env1))
       /\ cache[ResEnv[ResFields[k].value[1].id]].bt = "Revertible"

\* a merged field whose two originals are a constant or a standard element
C22_StandardCase ==
  /\ MergedOk /\ BothRecords
  /\ \E k \in CenterKeys :
       /\ EqualPriorityMerge(k)
       /\ ~RevertibleValue(t1.term.fields[k].value[1], env1)
       /\ ~RevertibleValue(t2.term.fields[k].value[1], env2)
       /\ t1.term.fields[k].value[1].tag = "Var"
       /\ cache[ResEnv[ResFields[k].value[1].id]].bt = "Standard"

(***************************************************************************)
(* The variables of the record returned by merge.                           *)
(***************************************************************************)
\* the places of the result that may hold a variable: <<k, 0>> is the value
\* of the field k, <<k, i>> its i-th pending contract
Slots ==
  {<<k, 0>> : k \in {x \in DOMAIN ResFields : ResFields[x].value # None}}
  \cup UNION {{<<k, i>> : i \in 1..Len(ResFields[k].pending_contracts)} : k \in DOMAIN ResFields}

TermAt(slot) ==
  IF slot[2] = 0 THEN ResFields[slot[1]].value[1]
  ELSE ResFields[slot[1]].pending_contracts[slot[2]].contract

VarSlots == {slot \in Slots : TermAt(slot).tag = "Var"}

\* every variable of the result is bound by the returned environment to a
\* cache index allocated by this merge, and no two places hold the same one
FreshVariables ==
  /\ \A slot \in VarSlots :
       /\ TermAt(slot).id \in DOMAIN ResEnv
       /\ ResEnv[TermAt(slot).id] > Len(cache0)
       /\ ResEnv[TermAt(slot).id] <= Len(cache)
  /\ \A s1, s2 \in VarSlots : TermAt(s1).id = TermAt(s2).id => s1 = s2

\* the pending contracts of the field k of the result from position `from`
\* on are those of the field f of an operand, reverted
CarriedContracts(k, from, f, env) ==
  \A i \in 1..Len(f.pending_contracts) :
    CarriedContract(ResFields[k].pending_contracts[from + i], f.pending_contracts[i], env)

\* the value of the field f1 is kept by the merge with f2: f2 has no value,
\* or a priority that is not strictly higher
Kept(f1, f2) ==
  /\ f1.value # None
  /\ f2.value = None \/ ~PriorityGt(f2.metadata.priority, f1.metadata.priority)

\* C23 as stated: every variable of the result is a fresh identifier bound
\* to an index allocated by the merge, all distinct, and every value and
\* contract of an operand that the result keeps is there unchanged when it
\* is a constant, and replaced by such an identifier when it is a variable.
C23_Original ==
  (MergedOk /\ BothRecords) =>
    /\ FreshVariables
    /\ \A k \in LeftKeys : CarriedField(ResFields[k], t1.term.fields[k], env1)
    /\ \A k \in RightKeys : CarriedField(ResFields[k], t2.term.fields[k], env2)
    /\ \A k \in CenterKeys :
         \E f1 \in {t1.term.fields[k]}, f2 \in {t2.term.fields[k]} :
            /\ CarriedContracts(k, 0, f1, env1)
            /\ CarriedContracts(k, Len(f1.pending_contracts), f2, env2)
            /\ (Kept(f1, f2) /\ f1.value[1].tag # "Var") => ResFields[k].value = f1.value
            /\ (Kept(f2, f1) /\ f2.value[1].tag # "Var") => ResFields[k].value = f2.value
            /\ (Kept(f1, f2) /\ f1.value[1].tag = "Var") => ResFields[k].value[1].tag = "Var"
            /\ (Kept(f2, f1) /\ f2.value[1].tag = "Var") => ResFields[k].value[1].tag = "Var"

\* C23 amended: as above, but a constant value passes unchanged only where
\* the field is carried over: under a key of one operand, or on the one
\* side that has a value or the strictly higher priority; two values of
\* equal priority, constants or not, become one fresh identifier bound to
\* the merged thunk.
C23_Closedness ==
  (MergedOk /\ BothRecords) =>
    /\ FreshVariables
    /\ \A k \in LeftKeys : CarriedField(ResFields[k], t1.term.fields[k], env1)
    /\ \A k \in RightKeys : CarriedField(ResFields[k], t2.term.fields[k], env2)
    /\ \A k \in CenterKeys :
         \E f1 \in {t1.term.fields[k]}, f2 \in {t2.term.fields[k]} :
            /\ CarriedContracts(k, 0, f1, env1)
            /\ CarriedContracts(k, Len(f1.pending_contracts), f2, env2)
            /\ IF Kept(f1, f2) /\ Kept(f2, f1) THEN MergedThunk(k, f1, f2)
               ELSE IF Kept(f1, f2) THEN CarriedTerm(ResFields[k].value[1], f1.value[1], env1)
               ELSE IF Kept(f2, f1) THEN CarriedTerm(ResFields[k].value[1], f2.value[1], env2)
               ELSE ResFields[k].value = None

\* a merge of two fields with pending contracts on both sides, the value of
\* the left one a variable, selected by its priority over the constant of
\* the right one
C23_Witness ==
  /\ MergedOk /\ BothRecords
  /\ \E k \in CenterKeys :
       /\ t1.term.fields[k].value # None
       /\ t2.term.fields[k].value # None
       /\ t1.term.fields[k].value[1].tag = "Var"
       /\ t2.term.fields[k].value[1].tag # "Var"
       /\ PriorityGt(t1.term.fields[k].metadata.priority, t2.term.fields[k].metadata.priority)
       /\ Len(t1.term.fields[k].pending_contracts) = 2
       /\ Len(t2.term.fields[k].pending_contracts) = 2
       /\ Cardinality(VarSlots) = 5

(***************************************************************************)
(* The cache entries that existed before the merge.                         *)
(***************************************************************************)
\* the fields of the operand t whose value is held in the cache, each with
\* the index of its entry
OperandEnv(t, env) ==
  [k \in {x \in KeysOf(t) : /\ t.term.fields[x].value # None
                            /\ t.term.fields[x].value[1].tag = "Var"}
     |-> env[t.term.fields[k].value[1].id]]

\* what the evaluation of the fields of the operand t gives in the cache c
OperandValues(c, t, env) ==
  EvalAll(c, Sorted(DOMAIN OperandEnv(t, env)), OperandEnv(t, env), MapEmpty).out

\* C24: merge changes and removes no cache entry that existed before the
\* call, it only adds entries, so the entries of the operands keep their
\* body, dependencies and value, and the fields of an operand evaluate after
\* the merge to what they evaluated to before.
C24_CachePreserved ==
  Merged =>
    /\ Len(cache) >= Len(cache0)
    /\ SubSeq(cache, 1, Len(cache0)) = cache0
    /\ OperandValues(cache, t1, env1) = OperandValues(cache0, t1, env1)
    /\ OperandValues(cache, t2, env2) = OperandValues(cache0, t2, env2)

\* a merge that reverted a field whose entry held an evaluated value, and
\* added entries to the cache
C24_Witness ==
  /\ MergedOk /\ BothRecords
  /\ Len(cache) > Len(cache0)
  /\ \E k \in LeftKeys :
       /\ k \in DOMAIN OperandEnv(t1, env1)
       /\ cache0[OperandEnv(t1, env1)[k]].value # None
       /\ ResFields[k].value[1].tag = "Var"
       /\ cache[ResEnv[ResFields[k].value[1].id]].value = None

(***************************************************************************)
(* The call stack of the evaluator across a merge.                          *)
(***************************************************************************)
\* the merge failed on a sealed tail
SealedTailFailure ==
  MergedErr /\ result[1].error.kind = "IllegalPolymorphicTailAccess"

\* C25: when merge fails on a sealed tail the error carries the whole call
\* stack of the evaluator, whose call stack is left empty; on every other
\* outcome the call stack of the evaluator is what it was on entry.
C25_CallStack ==
  Merged =>
    IF SealedTailFailure
    THEN result[1].error.call_stack = stack0 /\ call_stack = << >>
    ELSE call_stack = stack0

\* a failure on a sealed tail with a call stack that was not empty
C25_Witness ==
  /\ SealedTailFailure
  /\ stack0 # << >>
  /\ result[1].error.call_stack = stack0
  /\ call_stack = << >>

(***************************************************************************)
(* Conflicting values are found when the merged field is evaluated.         *)
(***************************************************************************)
\* both operands are records without sealed tail, merged in Standard mode
StandardRecordMerge ==
  BothRecords /\ mode = Standard /\ ~Sealed(t1) /\ ~Sealed(t2)

\* the common key k has two numbers of the same priority that differ
ConflictingNumbers(k) ==
  /\ EqualPriorityMerge(k)
  /\ t1.term.fields[k].value[1].tag = "Num"
  /\ t2.term.fields[k].value[1].tag = "Num"
  /\ ~EqualValues(t1.term.fields[k].value[1], t2.term.fields[k].value[1])

\* C26: the merge of two records without sealed tail in Standard mode
\* returns Ok, also when a common field has two conflicting values of equal
\* priority; the conflict is the MergeIncompatibleArgs that the evaluation of
\* that field of the merged record gives.
C26_LazyConflict ==
  /\ (Merged /\ StandardRecordMerge) => result[1].tag = "Ok"
  /\ (pc = "evaluated" /\ chain = 0 /\ StandardRecordMerge) =>
       \A k \in CenterKeys :
         ConflictingNumbers(k) =>
           /\ result[1].tag = "Ok"
           /\ observed[1][k].tag = "Err"
           /\ observed[1][k].error.kind = "MergeIncompatibleArgs"

\* the fields of a merged record have been evaluated, one of them made of
\* two different numbers of equal priority
C26_Witness ==
  /\ pc = "evaluated" /\ chain = 0 /\ StandardRecordMerge
  /\ result[1].tag = "Ok"
  /\ \E k \in CenterKeys :
       /\ ConflictingNumbers(k)
       /\ observed[1][k].tag = "Err"
       /\ observed[1][k].error.kind = "MergeIncompatibleArgs"

(***************************************************************************)
(* A merge that fails leaves the cache as it was.                           *)
(***************************************************************************)
\* the errors merge returns
MergeErrors == {"IllegalPolymorphicTailAccess", "BlameError", "MergeIncompatibleArgs"}

\* both records break a rule: one has a sealed tail, and the left one has a
\* field that the closed record contract on the right does not list
BreaksBoth ==
  /\ BothRecords /\ mode.kind = "Contract"
  /\ Sealed(t1) \/ Sealed(t2)
  /\ ~t2.term.attrs.open /\ LeftKeys # {}

\* C27: a call of merge that returns an error has allocated and reverted no
\* cache entry and drawn no fresh identifier; the check of the sealed tails
\* comes first, so two records that also break the closed record contract
\* give the error of the sealed tail.
C27_ErrorLeavesState ==
  [][(pc = "ready" /\ pc' = "merged" /\ result'[1].tag = "Err"
        /\ result'[1].error.kind \in MergeErrors) =>
       /\ cache' = cache
       /\ nfresh' = nfresh
       /\ BreaksBoth => result'[1].error.kind = "IllegalPolymorphicTailAccess"]_vars

\* a merge in Contract mode that breaks both rules has failed on the sealed
\* tail, the right record being the only sealed one
C27_Witness ==
  /\ MergedErr /\ BreaksBoth
  /\ ~Sealed(t1) /\ Sealed(t2)
  /\ result[1].error.kind = "IllegalPolymorphicTailAccess"
  /\ cache = cache0

(***************************************************************************)
(* The arms of the selection of merge_fields.                               *)
(***************************************************************************)
\* the pattern and the guard of the i-th arm of the match on (value1, value2)
ArmMatches(i, f1, f2) ==
  CASE i = 1 -> /\ f1.value # None /\ f2.value # None
                /\ f1.metadata.priority = f2.metadata.priority
    [] i = 2 -> f1.value # None /\ PriorityGt(f1.metadata.priority, f2.metadata.priority)
    [] i = 3 -> f1.value # None /\ f2.value = None
    [] i = 4 -> f2.value # None /\ PriorityGt(f2.metadata.priority, f1.metadata.priority)
    [] i = 5 -> f1.value = None /\ f2.value # None
    [] i = 6 -> f1.value = None /\ f2.value = None

\* the arms that match the two fields; the match takes the first of them
MatchingArms(f1, f2) == {i \in 1..6 : ArmMatches(i, f1, f2)}

\* the merge ended in the `unreachable!()` of merge_fields
ReachedUnreachable ==
  MergedErr /\ result[1].error.kind = "Panic" /\ result[1].error.what = "unreachable"

\* C28: the match of merge_fields is exhaustive: for every presence of the
\* two values and every two priorities of the total order one of the six
\* explicit arms is taken, never the final `unreachable!()`.
C28_Exhaustive ==
  /\ ~ReachedUnreachable
  /\ (Merged /\ BothRecords) =>
       \A k \in CenterKeys : MatchingArms(t1.term.fields[k], t2.term.fields[k]) # {}

\* a merge of two fields with values whose priorities are two different
\* numeral priorities: only the order decides which arm is taken
C28_Witness ==
  /\ MergedOk /\ BothRecords
  /\ \E k \in CenterKeys :
       /\ t1.term.fields[k].value # None
       /\ t2.term.fields[k].value # None
       /\ t1.term.fields[k].metadata.priority.tag = "Neutral"
       /\ t2.term.fields[k].metadata.priority.tag = "Neutral"
       /\ t1.term.fields[k].metadata.priority # t2.term.fields[k].metadata.priority
       /\ MatchingArms(t1.term.fields[k], t2.term.fields[k]) \in {{2}, {4}}


(***************************************************************************)
(* Round trips through the bridge.                                          *)
(***************************************************************************)
\* the term handed to the bridge is an application that is not the encoding
\* of if-then-else
CurriedApplication ==
  /\ mainline[1].tag = "App"
  /\ ~(/\ mainline[1].f.term.tag = "App"
       /\ mainline[1].f.term.f.term.tag = "Op1"
       /\ mainline[1].f.term.f.term.op.name = "IfThenElse")

RECURSIVE AppSpine(_)
\* the head f and the arguments a1, .., an of ((f a1) a2) .. an
AppSpine(term) ==
  IF term.f.term.tag = "App"
  THEN LET more(spine) == [head |-> spine.head, args |-> Append(spine.args, term.arg)]
       IN more(AppSpine(term.f.term))
  ELSE [head |-> term.f, args |-> <<term.arg>>]

\* the node is one application of the conversion of the head of the spine to
\* the conversions of its arguments, in their order
SingleApp(node, spine) ==
  /\ node.variant = "App"
  /\ node.fun = FromMainlineRichTerm(spine.head, TRUE).v
  /\ node.args = [i \in 1..Len(spine.args) |-> FromMainlineRichTerm(spine.args[i], TRUE).v]

\* C29: the bridge converts a curried application ((f a1) a2) .. an that is
\* not the encoding of if-then-else into a single App node whose head is the
\* conversion of f and whose arguments are the conversions of a1, .., an, each
\* once and in that order, and converting that node back gives the original
\* application.
C29_Original ==
  (pc \in {"lowered", "raised"} /\ CurriedApplication) =>
     /\ ~ast[1].panicked
     /\ SingleApp(ast[1].v, AppSpine(mainline[1]))
     /\ pc = "raised" => (~back[1].panicked /\ back[1].v = mainline[1])


\* the operator op of a term converted back is the operator of the original
\* term, up to the label of a Merge, of which the kind is the same
SameOperator(op, original) ==
  IF original.name = "Merge"
  THEN op.name = "Merge" /\ op.merge_label.kind = original.merge_label.kind
  ELSE op = original

\* the operands of an application of an operator, in their order
OperandsOf(term) ==
  CASE term.tag = "Op1" -> <<term.arg>>
    [] term.tag = "Op2" -> <<term.l, term.r>>
    [] term.tag = "OpN" -> term.args

\* C30: for an evaluator term Op1(op, a), Op2(op, a, b) or OpN(op, args) whose
\* operator may appear at the parsing stage, converting it to the AST and the
\* result back gives the same operator, up to the label of a Merge, applied
\* to the same operands in the same order.
C30_Original ==
  (pc = "raised" /\ mainline[1].tag \in {"Op1", "Op2", "OpN"}) =>
     /\ ~back[1].panicked
     /\ back[1].v.tag = mainline[1].tag
     /\ SameOperator(back[1].v.op, mainline[1].op)
     /\ OperandsOf(back[1].v) = OperandsOf(mainline[1])

====
